---- MODULE Spec2Model ----
\* A model of ngrid: the incremental table model (DelimitedFileModel), the
\* viewport/navigation engine and render loop (GridView) of src/ngrid/grid.py,
\* and the value formatters of src/ngrid/formatters.py with the string
\* geometry of src/ngrid/text.py.
EXTENDS Integers, Sequences, FiniteSets, TLC

\* ---------------------------------------------------------------- bounds
\* Terminal heights the model tries are 1..MaxLines.
MaxLines == 4
\* Rows in the table after construction (the sample) are 1..MaxSample.
MaxSample == 2
\* Rows still unread in the line source after construction are 0..MaxMore.
MaxMore == 1
\* Rows still unread when the model alone is exercised are 0..MaxSource, and
\* a file that is loaded has 0..MaxSource lines.
MaxSource == 4
\* Finite floats are the multiples of 1 / Quarter whose numerator is within
\* -MaxQuarters .. MaxQuarters; ints are within -MaxInt .. MaxInt; strings have
\* up to MaxStr characters; a formatter has a size of 0 .. MaxSize digits and a
\* precision of None or 0 .. MaxPrecision digits.
Quarter == 4
MaxQuarters == 44
MaxInt == 110
MaxStr == 4
MaxSize == 3
MaxPrecision == 2
\* Column counts are 1..MaxCols, frozen-column counts 0..MaxFrozen.
MaxCols == 2
MaxFrozen == 1
\* The row index that stands for sys.maxsize (grid.py:725), the request for
\* the whole source. Any value above every row count behaves alike; this one
\* fits TLC's integers.
maxsize == 1000000
\* A second terminal width, narrower than the default, on which the widest
\* string column does not fit.
NarrowWidth == 30

\* ------------------------------------------------------ program constants
\* grid.py:27. Rows read past the requested index by ensure_rows.
SAMPLELINES == 200
\* terminal.py:34, the default terminal size.
DefaultWidth == 80
DefaultHeight == 25
\* grid.py:45, the most a string column's inferred width is clipped to.
str_width_max == 32

\* Python's None, for an optional integer (a formatter's precision).
None == 0 - 1

\* ------------------------------------------------- Python numbers in the view
\* `from __future__ import division` (grid.py:9) makes num_rows / 2 a float, so
\* a row offset is an int or a float. A number is [v |-> twice its value,
\* f |-> it is a float]; halves are the only fractions the view can produce.
PyInt(n) == [v |-> 2 * n, f |-> FALSE]
PyHalf(n) == [v |-> n, f |-> TRUE]
PyAdd(a, b) == [v |-> a.v + b.v, f |-> a.f \/ b.f]
PySub(a, b) == [v |-> a.v - b.v, f |-> a.f \/ b.f]
PyLt(a, b) == a.v < b.v
\* max(a, b) and min(a, b) return the first argument unless the second is
\* strictly better, so max(0, 0.0) is the int 0.
PyMax(a, b) == IF PyLt(a, b) THEN b ELSE a
PyMin(a, b) == IF PyLt(b, a) THEN b ELSE a

\* grid.py:57-61
clip(min, val, max) == IF val < min THEN min ELSE IF val > max THEN max ELSE val
PyClip(min, val, max) == IF PyLt(val, min) THEN min ELSE IF PyLt(max, val) THEN max ELSE val

\* grid.py:39, the lengths of SEPARATORS (0-based index).
SEPARATORS == <<1, 1, 2, 3, 3>>

VARIABLES
    \* DelimitedFileModel
    rows,           \* len(self.__rows): model.num_rows
    more,           \* rows the line source has not yet yielded
    done,           \* model.done
    ret,            \* what the last ensure_rows call returned
    num_cols,       \* model.num_cols
    title_lines,    \* model.title_lines
    source,         \* self.__lines: the lines not yet read, as the file has them
    comment_prefix, \* <<>> for None, <<prefix>> for a prefix
    has_header,
    table,          \* self.__rows: the rows read, each a tuple of cell strings
    names,          \* model.names
    types,          \* model.types, one of TYPES per column the sample has
    delimiter,      \* model.delimiter, "None" before it is known
    row,            \* what the last get_row call returned
    values,         \* a column sample handed to guess_type
    \* GridView
    formatters,     \* column -> formatter, columns 0..num_cols-1
    num_frozen,
    col0,
    idx0,
    idx1,
    cursor,         \* <<row, column>>: cursor[1] is __cursor[0], cursor[2] is __cursor[1]
    show_cursor,
    show_header,
    show_footer,
    separator,      \* index into SEPARATORS of cfg["separator"]
    screen_width,
    screen_height,
    num_rows,       \* GridView.__num_rows, the viewport height
    terminals,      \* the <<width, height>> sizes the terminal takes in this run
    searchTerm,     \* GridView.searchTerm: the pattern, "None" for None
    flash,          \* GridView.flash: the status to show once, "None" for None
    \* a formatter call: the formatter is formatters[0]
    fmt_args,       \* the arguments handed to a formatter's constructor
    fmt_value,      \* the value handed to format
    fmt_result,     \* the string format returned
    \* control
    pc,             \* "show" | "key" | "quit" | "crashed" | "hung"
    exc,            \* the exception that ended the program, "" if none
    wrapped         \* the last render read a negative index Python accepted

vars == <<rows, more, done, ret, num_cols, title_lines, source, comment_prefix,
          has_header, table, names, types, delimiter, row, values, formatters, num_frozen,
          col0, idx0, idx1, cursor, show_cursor, show_header, show_footer,
          separator, screen_width, screen_height, num_rows, terminals, searchTerm,
          flash, fmt_args, fmt_value, fmt_result, pc, exc,
          wrapped>>

modelVars == <<rows, more, done, ret>>
\* What no key that navigates or configures the view changes.
fileVars == <<source, comment_prefix, has_header, table, names, types, delimiter, row,
              values>>
staticVars == <<num_cols, title_lines, num_frozen, terminals, fmt_args, fmt_value,
                fmt_result,
                searchTerm, flash, fileVars>>

\* ------------------------------------------------------------------ text.py
\* A string is a sequence of one-character strings.
\* string * n
Repeat(string, n) == [i \in 1 .. n |-> string]
\* string[: n]
slice_to(string, n) ==
    IF n >= 0 THEN SubSeq(string, 1, IF n < Len(string) THEN n ELSE Len(string))
    ELSE SubSeq(string, 1, Len(string) + n)
\* string[-n :] for n > 0
slice_last(string, n) ==
    SubSeq(string, IF n < Len(string) THEN Len(string) - n + 1 ELSE 1, Len(string))

\* str.strip(): leading and trailing blanks removed.
RECURSIVE lstrip(_)
lstrip(string) ==
    IF Len(string) > 0 /\ Head(string) = " " THEN lstrip(Tail(string)) ELSE string
RECURSIVE rstrip(_)
rstrip(string) ==
    IF Len(string) > 0 /\ string[Len(string)] = " "
    THEN rstrip(SubSeq(string, 1, Len(string) - 1)) ELSE string
strip(string) == rstrip(lstrip(string))

\* round(num / den) for num >= 0 and den > 0: Python 3 rounds a tie to even.
py_round(num, den) ==
    LET q == num \div den
        r == num % den
    IN IF 2 * r < den THEN q
       ELSE IF 2 * r > den THEN q + 1
       ELSE IF q % 2 = 0 THEN q ELSE q + 1

Abs(n) == IF n < 0 THEN 0 - n ELSE n

RECURSIVE pow10(_)
pow10(n) == IF n <= 0 THEN 1 ELSE 10 * pow10(n - 1)

\* floor(math.log10(num / den)) for num > 0 and den > 0.
RECURSIVE floor_log10(_, _)
floor_log10(num, den) ==
    IF num >= 10 * den THEN floor_log10(num, 10 * den) + 1
    ELSE IF num < den THEN floor_log10(10 * num, den) - 1
    ELSE 0

DIGITS == <<"0", "1", "2", "3", "4", "5", "6", "7", "8", "9">>
\* str(n) for an int n >= 0
RECURSIVE str(_)
str(n) == IF n < 10 THEN <<DIGITS[n + 1]>> ELSE str(n \div 10) \o <<DIGITS[(n % 10) + 1]>>

\* text.py:28-29: pad raises ValueError unless the pad is one character.
pad_raises(padch) == Len(padch) # 1

\* text.py:20-36, for a pad that is one character.
pad(string, length, padch, left) ==
    IF Len(string) < length
    THEN IF left THEN Repeat(padch, length - Len(string)) \o string
         ELSE string \o Repeat(padch, length - Len(string))
    ELSE string

\* text.py:39-76; position is twice the fraction (0, 1 or 2 for 0.0, 0.5, 1.0),
\* so that position * keep is exact as it is in binary floating point.
elide(string, max_length, ellipsis, position) ==
    IF Len(string) <= max_length THEN string
    ELSE LET keep == max_length - Len(ellipsis)
             left == py_round(position * keep, 2)
             right == keep - left
         IN (IF left > 0 THEN slice_to(string, left) ELSE <<>>)
                \o ellipsis
                \o (IF right > 0 THEN slice_last(string, right) ELSE <<>>)

\* text.py:79-85
palide(string, length, ellipsis, padch, position, left) ==
    pad(elide(string, length, ellipsis, position), length, padch, left)

\* ------------------------------------------------------------ formatters.py
\* A formatter is a record of its class and its constructor's attributes. A
\* sign of None is the string "None"; a precision of None is None.
\* formatters.py:19-26
BoolFormatter(true, false, size, pad_left) ==
    [cls |-> "Bool", true |-> true, false |-> false,
     size |-> IF size = None
              THEN (IF Len(true) > Len(false) THEN Len(true) ELSE Len(false))
              ELSE size,
     pad_left |-> pad_left]

\* formatters.py:79-100
IntFormatter(size, padch, sign) ==
    [cls |-> "Int", size |-> size, pad |-> padch, sign |-> sign,
     width |-> size + (IF sign \in {"-", "+"} THEN 1 ELSE 0)]

\* formatters.py:203-208: the width before the sign is added, which the
\* constructor asserts nan_str and inf_str to fit.
Float_digits_width(size, precision, point) ==
    size + (IF precision = None THEN 0 ELSE Len(point) + precision)

\* formatters.py:181-221
FloatFormatter(size, precision, padch, sign, point, nan_str, inf_str) ==
    [cls |-> "Float", size |-> size, precision |-> precision, pad |-> padch,
     sign |-> sign, point |-> point, nan_str |-> nan_str, inf_str |-> inf_str,
     width |-> Float_digits_width(size, precision, point)
                   + (IF sign \in {"-", "+"} THEN 1 ELSE 0)]

\* formatters.py:369: the width before the sign is added.
Scientific_digits_width(size, precision, point, exp) ==
    1 + Len(point) + precision + Len(exp) + 1 + size

\* formatters.py:349-385; line 369 adds precision, so it raises TypeError when
\* precision is None: every constructed formatter has an integer precision.
ScientificFloatFormatter(size, precision, padch, sign, point, exp, nan_str, inf_str) ==
    LET width0 == Scientific_digits_width(size, precision, point, exp)
    IN [cls |-> "Scientific", size |-> size, precision |-> precision,
        pad |-> padch, sign |-> sign, point |-> point, exp |-> exp,
        nan_str |-> pad(slice_to(strip(nan_str), width0), width0, " ", FALSE),
        inf_str |-> pad(slice_to(strip(inf_str), width0), width0, " ", FALSE),
        width |-> width0 + (IF sign \in {"-", "+"} THEN 1 ELSE 0)]

\* formatters.py:509-516
StrFormatter(size, ellipsis, padch, position, pad_left) ==
    [cls |-> "Str", size |-> size, ellipsis |-> ellipsis, pad |-> padch,
     position |-> position, pad_left |-> pad_left]

\* `pad in "0 "` (formatters.py:90, 199): the pad is a substring of "0 ".
in_zero_space(padch) == padch \in {"", "0", " ", "0 "}

\* The constructor's arguments are a record [cls, size, precision, pad, sign,
\* point, exp, nan_str, inf_str, ellipsis, position, pad_left, true, false].
\* What the constructor raises for them, "" when it returns.
\* formatters.py:89-91
Int_init(a) ==
    IF a.size >= 0 /\ in_zero_space(a.pad) /\ a.sign \in {"None", "-", "+"} THEN ""
    ELSE "AssertionError"

\* formatters.py:197-206
Float_init(a) ==
    IF /\ a.size >= 0
       /\ a.precision = None \/ a.precision >= 0
       /\ in_zero_space(a.pad)
       /\ a.sign \in {"None", "-", "+"}
       /\ Len(a.nan_str) <= Float_digits_width(a.size, a.precision, a.point)
       /\ Len(a.inf_str) <= Float_digits_width(a.size, a.precision, a.point)
    THEN ""
    ELSE "AssertionError"

\* formatters.py:364-371: after the assertions, line 369 adds precision to an
\* int, which raises TypeError for None; nan_str and inf_str are cut to the
\* width, not checked.
Scientific_init(a) ==
    IF ~(/\ a.size >= 0
         /\ a.precision = None \/ a.precision >= 0
         /\ Len(a.pad) = 1
         /\ a.sign \in {"None", "-", "+"})
    THEN "AssertionError"
    ELSE IF a.precision = None THEN "TypeError"
    ELSE ""

\* formatter.__class__(**args): the exception raised, or "" and the formatter.
new(a) ==
    CASE a.cls = "Bool" ->
            [exc |-> "", f |-> BoolFormatter(a.true, a.false, a.size, a.pad_left)]
      [] a.cls = "Int" ->
            [exc |-> Int_init(a),
             f |-> IntFormatter(a.size, a.pad, a.sign)]
      [] a.cls = "Float" ->
            [exc |-> Float_init(a),
             f |-> FloatFormatter(a.size, a.precision, a.pad, a.sign, a.point,
                                  a.nan_str, a.inf_str)]
      [] a.cls = "Scientific" ->
            [exc |-> Scientific_init(a),
             f |-> IF Scientific_init(a) # "" THEN a
                   ELSE ScientificFloatFormatter(a.size, a.precision, a.pad, a.sign,
                                                 a.point, a.exp, a.nan_str, a.inf_str)]
      [] a.cls = "Str" ->
            [exc |-> "",
             f |-> StrFormatter(a.size, a.ellipsis, a.pad, a.position, a.pad_left)]

\* The width property: formatters.py:29-34, 118-123, 257-262, 425-430, 543-548.
width(f) == IF f.cls \in {"Bool", "Str"} THEN f.size ELSE f.width

\* A float is [kind, q]: "nan"; "inf" with q = 1 or -1; "fin" for q / Quarter.
IsNegative(x) == x.kind # "nan" /\ x.q < 0

\* What a call produced: the string returned, or the exception raised.
Returns(string) == [out |-> string, exc |-> ""]
Raises(e) == [out |-> <<>>, exc |-> e]

\* formatters.py:56-68
Bool_format(f, value) ==
    Returns(palide(IF value THEN f.true ELSE f.false, f.size, <<>>, " ", 2, f.pad_left))

\* Int_format with the zero padding put before the sign, as the space padding
\* is.
Int_format_padding_first(f, value) ==
    LET sign == IF f.sign = "None" THEN <<>>
                ELSE IF value < 0 THEN <<"-">>
                ELSE IF f.sign = "+" THEN <<"+">>
                ELSE <<" ">>
        result == str(Abs(value))
    IN IF Len(result) > f.size \/ (value < 0 /\ f.sign = "None")
       THEN Returns(Repeat("#", f.width))
       ELSE Returns(pad(sign \o result, f.size + Len(sign), f.pad, TRUE))

\* formatters.py:135-162
Int_format(f, value) ==
    LET sign == IF f.sign = "None" THEN <<>>
                ELSE IF value < 0 THEN <<"-">>
                ELSE IF f.sign = "+" THEN <<"+">>
                ELSE <<" ">>
        result == str(Abs(value))
    IN IF Len(result) > f.size \/ (value < 0 /\ f.sign = "None")
       THEN Returns(Repeat("#", f.width))
       ELSE IF pad_raises(f.pad) THEN Raises("ValueError")
       ELSE IF f.pad = " "
       THEN Returns(pad(sign \o result, f.size + Len(sign), f.pad, TRUE))
       ELSE Returns(sign \o pad(result, f.size, f.pad, TRUE))

\* formatters.py:278-334
Float_format(f, value) ==
    LET sign == IF f.sign = "None" THEN <<>>
                ELSE IF IsNegative(value) THEN <<"-">>
                ELSE IF f.sign = "+" THEN <<"+">>
                ELSE <<" ">>
    IN IF value.kind = "nan"
       THEN Returns(pad(f.nan_str, f.width, " ", TRUE))
       ELSE IF value.kind = "inf"
       THEN IF value.q < 0 /\ f.sign = "None"
            THEN Returns(Repeat("#", f.width))
            ELSE Returns(pad(sign \o f.inf_str, f.width, " ", TRUE))
       ELSE LET precision == IF f.precision = None THEN 0 ELSE f.precision
                multiplier == pow10(precision)
                \* abs(round(value, precision)) * 10 ** precision
                abs_scaled == py_round(Abs(value.q) * multiplier, Quarter)
                int_value == abs_scaled \div multiplier
                result == str(int_value)
                padded == IF f.pad = " "
                          THEN pad(sign \o result, f.size + Len(sign), f.pad, TRUE)
                          ELSE sign \o pad(result, f.size, f.pad, TRUE)
                frac == str(abs_scaled % multiplier)
            IN IF Len(result) > f.size \/ (f.sign = "None" /\ value.q < 0)
               THEN Returns(Repeat("#", f.width))
               ELSE IF pad_raises(f.pad) THEN Raises("ValueError")
               ELSE IF f.precision = None THEN Returns(padded)
               ELSE IF f.precision = 0 THEN Returns(padded \o f.point)
               ELSE IF Len(frac) > precision THEN Raises("AssertionError")
               ELSE Returns(padded \o f.point \o pad(frac, f.precision, "0", TRUE))

\* formatters.py:456-462
add_sign(f, value, result) ==
    IF f.sign = "-" THEN <<IF IsNegative(value) THEN "-" ELSE " ">> \o result
    ELSE IF f.sign = "+" THEN <<IF IsNegative(value) THEN "-" ELSE "+">> \o result
    ELSE result

\* formatters.py:450-494. math.log10 raises ValueError at 0.0 (line 472).
Scientific_format(f, value) ==
    IF value.kind = "nan" THEN Returns(add_sign(f, value, f.nan_str))
    ELSE IF value.kind = "inf" THEN Returns(add_sign(f, value, f.inf_str))
    ELSE IF value.q = 0 THEN Raises("ValueError")
    ELSE LET abs_value == Abs(value.q)
             \* int(math.ceil(precision - math.log10(abs_value)))
             ndigits == f.precision - floor_log10(abs_value, Quarter)
             \* rnd_value == rnd_num / rnd_den
             rnd_num == IF ndigits >= 0
                        THEN py_round(abs_value * pow10(ndigits), Quarter)
                        ELSE py_round(abs_value, Quarter * pow10(0 - ndigits))
                                 * pow10(0 - ndigits)
             rnd_den == pow10(ndigits)
             exp == floor_log10(rnd_num, rnd_den)
             \* mantissa == man_num / man_den
             man_num == rnd_num * pow10(0 - exp)
             man_den == rnd_den * pow10(exp)
             int_value == man_num \div man_den
             frac == py_round((man_num - int_value * man_den) * pow10(f.precision),
                              man_den)
             digits == add_sign(f, value, str(int_value))
                           \o (IF f.precision = 0 THEN f.point
                               ELSE f.point \o pad(str(frac), f.precision, "0", TRUE))
                           \o f.exp
                           \o <<IF exp >= 0 THEN "+" ELSE "-">>
             exp_str == pad(str(Abs(exp)), f.size, "0", TRUE)
         IN IF Len(exp_str) > f.size
            THEN Returns(digits \o Repeat("#", f.size))
            ELSE Returns(digits \o exp_str)

\* formatters.py:564-574
Str_format(f, value) ==
    IF pad_raises(f.pad) THEN Raises("ValueError")
    ELSE Returns(palide(value, f.size, slice_to(f.ellipsis, f.size), f.pad, f.position,
                        f.pad_left))

\* formatter.format(value), by the formatter's class.
format(f, value) ==
    CASE f.cls = "Bool" -> Bool_format(f, value)
      [] f.cls = "Int" -> Int_format(f, value)
      [] f.cls = "Float" -> Float_format(f, value)
      [] f.cls = "Scientific" -> Scientific_format(f, value)
      [] f.cls = "Str" -> Str_format(f, value)

\* grid.py:160-164: the formatters get_default_formatter gives a bool column
\* and a str column as long as str_width_max allows, with the ellipsis of
\* DEFAULT_CFG, the one character U+2026 written "..." here.
DefaultFormatters ==
    {BoolFormatter(<<"T">>, <<"F">>, None, FALSE),
     StrFormatter(str_width_max, <<"...">>, " ", 2, FALSE)}

\* ------------------------------------------------- grid.py: type guessing
\* grid.py:33, the types from most to least specific.
TYPES == <<"bool", "int", "float", "str">>

\* The characters str.strip() removes, of those the model's strings have.
WHITESPACE == {" ", "\t"}

\* str.strip(chars): the characters of the set removed from both ends.
RECURSIVE strip_chars(_, _)
strip_chars(string, chars) ==
    IF Len(string) > 0 /\ Head(string) \in chars THEN strip_chars(Tail(string), chars)
    ELSE IF Len(string) > 0 /\ string[Len(string)] \in chars
    THEN strip_chars(SubSeq(string, 1, Len(string) - 1), chars)
    ELSE string

\* str.lower(), for the letters the model's strings have.
UPPERCASE == <<"A", "E", "F", "I", "L", "N", "R", "S", "T", "U", "Y">>
LOWERCASE == <<"a", "e", "f", "i", "l", "n", "r", "s", "t", "u", "y">>
lower(string) ==
    [k \in 1 .. Len(string) |->
        IF \E u \in 1 .. Len(UPPERCASE) : UPPERCASE[u] = string[k]
        THEN LOWERCASE[CHOOSE u \in 1 .. Len(UPPERCASE) : UPPERCASE[u] = string[k]]
        ELSE string[k]]

\* The index of the first character of the string that is in the set, 0 if
\* there is none.
find(string, chars) ==
    IF \E k \in 1 .. Len(string) : string[k] \in chars
    THEN CHOOSE k \in 1 .. Len(string) :
             string[k] \in chars /\ \A h \in 1 .. k - 1 : string[h] \notin chars
    ELSE 0

is_digit(ch) == \E d \in 1 .. Len(DIGITS) : DIGITS[d] = ch

\* Python's digit part of a number literal: digits, with single underscores
\* between digits.
is_digitpart(string) ==
    /\ Len(string) >= 1
    /\ \A k \in 1 .. Len(string) :
          \/ is_digit(string[k])
          \/ /\ string[k] = "_"
             /\ 1 < k /\ k < Len(string)
             /\ is_digit(string[k - 1]) /\ is_digit(string[k + 1])

unsigned(string) ==
    IF Len(string) > 0 /\ Head(string) \in {"+", "-"} THEN Tail(string) ELSE string

\* grid.py:64-78, as_bool of a str: it returns, rather than raises ValueError.
as_bool(value) ==
    lower(value) \in {<<"t", "r", "u", "e">>, <<"f", "a", "l", "s", "e">>}

\* int(value) of a str returns, rather than raises ValueError.
as_int(value) == is_digitpart(unsigned(strip_chars(value, WHITESPACE)))

\* float(value) of a str returns, rather than raises ValueError.
float_of_str(value) ==
    LET body == unsigned(strip_chars(value, WHITESPACE))
        e == find(body, {"e", "E"})
        mantissa == IF e = 0 THEN body ELSE SubSeq(body, 1, e - 1)
        exponent == SubSeq(body, e + 1, Len(body))
        point == find(mantissa, {"."})
        whole == IF point = 0 THEN mantissa ELSE SubSeq(mantissa, 1, point - 1)
        frac == SubSeq(mantissa, point + 1, Len(mantissa))
    IN \/ lower(body) \in {<<"i", "n", "f">>, <<"n", "a", "n">>,
                           <<"i", "n", "f", "i", "n", "i", "t", "y">>}
       \/ /\ e = 0 \/ is_digitpart(unsigned(exponent))
          /\ IF point = 0 THEN is_digitpart(whole)
             ELSE /\ whole = <<>> \/ is_digitpart(whole)
                  /\ frac = <<>> \/ is_digitpart(frac)
                  /\ whole # <<>> \/ frac # <<>>

\* grid.py:81-86, as_float of a str: the empty string is NaN.
as_float(value) == value = <<>> \/ float_of_str(value)

\* grid.py:89-92, 103: the converter of a type applied to a str returns.
converts(type, value) ==
    CASE type = "bool" -> as_bool(value)
      [] type = "int" -> as_int(value)
      [] type = "float" -> as_float(value)
      [] type = "str" -> TRUE

\* grid.py:102-111, the loop of guess_type over the types from the k-th on:
\* the first whose converter returns for every value of the column.
RECURSIVE guess_type_from(_, _, _)
guess_type_from(order, k, column) ==
    IF k > Len(order) THEN [type |-> "None", exc |-> "RuntimeError"]
    ELSE IF \A v \in 1 .. Len(column) : converts(order[k], column[v])
    THEN [type |-> order[k], exc |-> ""]
    ELSE guess_type_from(order, k + 1, column)

\* guess_type trying float before int.
guess_type_float_first(column) ==
    guess_type_from(<<"bool", "float", "int", "str">>, 1, column)

\* grid.py:95-111
guess_type(column) == guess_type_from(TYPES, 1, column)

\* -------------------------------------------- grid.py: delimiter guessing
\* grid.py:28, the delimiters tried.
DELIMS == <<",", " ", "|", "\t">>

\* The code point of a delimiter, by which Python orders one-character strings.
ord(ch) ==
    CASE ch = "\t" -> 9
      [] ch = " " -> 32
      [] ch = "," -> 44
      [] ch = "|" -> 124

\* The fields of a line that has no quote character.
RECURSIVE fields(_, _)
fields(line, delim) ==
    LET p == find(line, {delim})
    IN IF p = 0 THEN <<line>>
       ELSE <<SubSeq(line, 1, p - 1)>> \o fields(SubSeq(line, p + 1, Len(line)), delim)

\* A row of csv.reader(lines, delimiter=delim): an empty line has no field.
csv_row(line, delim) == IF line = <<>> THEN <<>> ELSE fields(line, delim)

\* grid.py:183-188: the row length under a delimiter, 0 unless all rows have it.
get_count(sample, delim) ==
    LET count == Len(csv_row(sample[1], delim))
    IN IF \A k \in 2 .. Len(sample) : Len(csv_row(sample[k], delim)) = count
       THEN count ELSE 0

\* grid.py:191-194: the delimiter of the last of the sorted (count, delimiter)
\* pairs, which is the pair no other pair is greater than.
guess_delimiter(sample) ==
    CHOOSE d \in {DELIMS[k] : k \in 1 .. Len(DELIMS)} :
        \A k \in 1 .. Len(DELIMS) :
            \/ get_count(sample, DELIMS[k]) < get_count(sample, d)
            \/ /\ get_count(sample, DELIMS[k]) = get_count(sample, d)
               /\ ord(DELIMS[k]) <= ord(d)

\* ------------------------------------------- grid.py: reading the file
\* grid.py:205-214, clean_line: the line, of which the source keeps the text
\* before the newline, without the whitespace at its ends.
clean_line(line) == strip_chars(line, WHITESPACE)

\* grid.py:218-229, clean_row: each value without the spaces and quotes at
\* its ends.
clean_row(cells) == [c \in 1 .. Len(cells) |-> strip_chars(cells[c], {" ", "\""})]

\* str.startswith
startswith(string, prefix) ==
    Len(string) >= Len(prefix) /\ SubSeq(string, 1, Len(prefix)) = prefix

\* grid.py:296-299, __is_comment. The prefix is <<>> for None, else <<prefix>>.
is_comment(prefix, line) == prefix # <<>> /\ startswith(line, prefix[1])

\* grid.py:327-336, the loop of __read_sample_lines: every line read is
\* appended, and the lines that are not comments are counted.
RECURSIVE keep_reading(_, _, _, _, _)
keep_reading(src, prefix, sample, count, max_lines) ==
    IF count >= max_lines \/ src = <<>> THEN [sample |-> sample, rest |-> src]
    ELSE LET line == clean_line(Head(src))
         IN keep_reading(Tail(src), prefix, Append(sample, line),
                         IF is_comment(prefix, line) THEN count ELSE count + 1,
                         max_lines)

\* grid.py:302-338, __read_sample_lines. next() of an exhausted source raises
\* StopIteration (line 317); after a first line that is a comment the method
\* calls self.__read_line, which the class does not define (line 320).
read_sample_lines(src, prefix, max_lines) ==
    IF max_lines = 0
    THEN [exc |-> "", sample |-> <<>>, comments |-> <<>>, rest |-> src]
    ELSE IF src = <<>>
    THEN [exc |-> "StopIteration", sample |-> <<>>, comments |-> <<>>, rest |-> src]
    ELSE LET line == clean_line(Head(src))
             first == IF Len(line) > 0 THEN <<line>> ELSE <<>>
             k == keep_reading(Tail(src), prefix, first, Len(first), max_lines)
         IN IF Len(line) > 0 /\ is_comment(prefix, line)
            THEN [exc |-> "AttributeError", sample |-> <<>>, comments |-> <<line>>,
                  rest |-> Tail(src)]
            ELSE [exc |-> "", sample |-> k.sample, comments |-> <<>>, rest |-> k.rest]

\* len(tuple(zip(*rows))): the length of the shortest row, 0 without rows.
num_zipped(t) ==
    IF t = <<>> THEN 0
    ELSE CHOOSE n \in {Len(t[r]) : r \in 1 .. Len(t)} : \A r \in 1 .. Len(t) : n <= Len(t[r])

\* grid.py:232-285, __init__ with delim None. The result has the exception
\* raised, or "" and the attributes of the model with the lines left unread.
DelimitedFileModel(src, header, num, prefix) ==
    LET s == read_sample_lines(src, prefix, IF num > 2 THEN num ELSE 2)
        delim == guess_delimiter(s.sample)
        sample_rows == [k \in 1 .. Len(s.sample) |-> clean_row(csv_row(s.sample[k], delim))]
        body == IF header THEN Tail(sample_rows) ELSE sample_rows
        cols == [c \in 1 .. num_zipped(body) |-> [r \in 1 .. Len(body) |-> body[r][c]]]
        failed(e) == [exc |-> e, table |-> <<>>, names |-> <<>>, num_cols |-> 0,
                      types |-> <<>>, delimiter |-> "None", title_lines |-> s.comments,
                      rest |-> s.rest]
    IN IF s.exc # "" THEN failed(s.exc)
       ELSE IF Len(s.sample) = 0 THEN failed("EOFError")
       ELSE IF Len(cols) = 0 THEN failed("ValueError")
       ELSE [exc |-> "",
             table |-> body,
             names |-> IF header THEN sample_rows[1]
                       ELSE [c \in 1 .. Len(sample_rows[1]) |-> <<"c", "o", "l">> \o str(c)],
             num_cols |-> Len(sample_rows[1]),
             types |-> [c \in 1 .. Len(cols) |-> guess_type(cols[c]).type],
             delimiter |-> delim,
             title_lines |-> s.comments,
             rest |-> s.rest]

\* grid.py:264-267 and 354-361: rows are appended from the lines that are
\* not comments until the table has `target` rows or the source ends.
RECURSIVE more_rows(_, _, _, _, _)
more_rows(t, src, prefix, delim, target) ==
    IF Len(t) >= target THEN [table |-> t, rest |-> src, done |-> FALSE]
    ELSE IF src = <<>> THEN [table |-> t, rest |-> src, done |-> TRUE]
    ELSE LET line == clean_line(Head(src))
         IN IF is_comment(prefix, line)
            THEN more_rows(t, Tail(src), prefix, delim, target)
            ELSE more_rows(Append(t, clean_row(csv_row(line, delim))), Tail(src),
                           prefix, delim, target)

\* The value a converter returns for a str: the type with the text it stands
\* for, lower case for a bool and without outer whitespace for a number.
convert(type, value) ==
    [type |-> type,
     text |-> CASE type = "bool" -> lower(value)
                [] type \in {"int", "float"} -> strip_chars(value, WHITESPACE)
                [] type = "str" -> value]

\* grid.py:346-349, get_row: zip(self.converts, row) stops at the shorter of
\* the two; a value its column's converter rejects raises ValueError.
get_row(t, kinds, idx) ==
    IF idx >= Len(t) THEN [exc |-> "IndexError", row |-> <<>>]
    ELSE LET cells == t[idx + 1]
             n == IF Len(kinds) < Len(cells) THEN Len(kinds) ELSE Len(cells)
         IN IF \E c \in 1 .. n : ~converts(kinds[c], cells[c])
            THEN [exc |-> "ValueError", row |-> <<>>]
            ELSE [exc |-> "", row |-> [c \in 1 .. n |-> convert(kinds[c], cells[c])]]

\* ------------------------------------------------------ DelimitedFileModel
\* ensure_rows changed to drop, once done, the rows past the requested index.
ensure_rows_dropping(m, max_row) ==
    IF m.done
    THEN [rows |-> IF max_row.v >= 0 /\ max_row.v < 2 * m.rows
                   THEN max_row.v \div 2 ELSE m.rows,
          more |-> m.more, done |-> TRUE,
          ret |-> PyMin(max_row, PyInt(m.rows))]
    ELSE LET target == (max_row.v + 2 * SAMPLELINES + 1) \div 2
             want == IF target > m.rows THEN target - m.rows ELSE 0
             take == IF want <= m.more THEN want ELSE m.more
         IN [rows |-> m.rows + take, more |-> m.more - take,
             done |-> want > m.more,
             ret |-> PyMin(max_row, PyInt(m.rows + take))]

\* ensure_rows changed to return, once done, the row count whatever index was
\* requested.
ensure_rows_counting(m, max_row) ==
    IF m.done
    THEN [rows |-> m.rows, more |-> m.more, done |-> TRUE,
          ret |-> PyInt(m.rows)]
    ELSE LET target == (max_row.v + 2 * SAMPLELINES + 1) \div 2
             want == IF target > m.rows THEN target - m.rows ELSE 0
             take == IF want <= m.more THEN want ELSE m.more
         IN [rows |-> m.rows + take, more |-> m.more - take,
             done |-> want > m.more,
             ret |-> PyMin(max_row, PyInt(m.rows + take))]

\* grid.py:352-364. The model is [rows, more, done]; max_row is a Python
\* number. The loop reads until num_rows >= max_row + SAMPLELINES or the
\* source raises StopIteration, which sets done.
ensure_rows(m, max_row) ==
    IF m.done
    THEN [rows |-> m.rows, more |-> m.more, done |-> TRUE,
          ret |-> PyMin(max_row, PyInt(m.rows))]
    ELSE LET target == (max_row.v + 2 * SAMPLELINES + 1) \div 2
             want == IF target > m.rows THEN target - m.rows ELSE 0
             take == IF want <= m.more THEN want ELSE m.more
         IN [rows |-> m.rows + take, more |-> m.more - take,
             done |-> want > m.more,
             ret |-> PyMin(max_row, PyInt(m.rows + take))]

Model == [rows |-> rows, more |-> more, done |-> done]

\* In a run of the view or of a formatter no file is read: every cell of the
\* table is alike and only the number of rows is kept.
NoFile ==
    /\ source = <<>>
    /\ comment_prefix = <<>>
    /\ has_header = FALSE
    /\ table = <<>>
    /\ names = <<>>
    /\ types = <<>>
    /\ delimiter = "None"
    /\ row = <<>>
    /\ values = <<>>

\* ---------------------------------------------------------------- GridView
\* The part of the view a navigation call changes, threaded through the calls
\* of one key handler; hung records that a loop of the handler cannot end.
View == [idx0 |-> idx0, idx1 |-> idx1, col0 |-> col0,
         cr |-> cursor[1], cc |-> cursor[2], hung |-> FALSE]

\* grid.py:533-544: the viewport height for a terminal height.
extra_lines(hdr, ftr) ==
    (IF hdr THEN 1 + Len(title_lines) ELSE 0) + (IF ftr THEN 1 ELSE 0)

\* grid.py:547-555
RECURSIVE frozen_width(_)
frozen_width(k) ==
    IF k <= 0 THEN 0
    ELSE frozen_width(k - 1) + width(formatters[k - 1]) + SEPARATORS[separator + 1]

RECURSIVE last_col_from(_, _)
last_col_from(c, x) ==
    IF c > num_cols - 1 THEN num_cols - 1
    ELSE LET x1 == x + width(formatters[c]) + SEPARATORS[separator + 1]
         IN IF x1 > screen_width THEN c - 1 ELSE last_col_from(c + 1, x1)

get_last_col(c0) ==
    last_col_from(c0, frozen_width(IF num_frozen < num_cols THEN num_frozen ELSE num_cols))

\* move_to without line 592, the clamp of idx0 below idx1 on a done table.
move_to_unclamped(s, line, m) ==
    LET i0 == PyMax(PyInt(0), line)
        i1 == PyAdd(i0, PyInt(num_rows))
        j1 == IF m.done THEN PyMin(i1, PyInt(m.rows)) ELSE i1
        j0 == i0
    IN [s EXCEPT !.idx0 = j0, !.idx1 = j1,
                 !.cr = PyClip(j0, s.cr, PySub(j1, PyInt(1)))]

\* grid.py:587-593
move_to(s, line, m) ==
    LET i0 == PyMax(PyInt(0), line)
        i1 == PyAdd(i0, PyInt(num_rows))
        j1 == IF m.done THEN PyMin(i1, PyInt(m.rows)) ELSE i1
        j0 == IF m.done THEN PyMin(i0, PySub(j1, PyInt(1))) ELSE i0
    IN [s EXCEPT !.idx0 = j0, !.idx1 = j1,
                 !.cr = PyClip(j0, s.cr, PySub(j1, PyInt(1)))]

\* grid.py:596-597
move_by(s, lines, m) == move_to(s, PyAdd(s.idx0, lines), m)

\* grid.py:600-603
move_to_col(s, col) ==
    LET c0 == clip(num_frozen, col, num_cols - 1)
        col1 == get_last_col(c0)
    IN [s EXCEPT !.col0 = c0, !.cc = clip(c0, s.cc, col1)]

\* grid.py:573-574: while self.__get_last_col() < c: self.__move_to_col(col0 + 1).
\* The loop's state is col0 alone, which takes at most num_cols + num_frozen + 1
\* values; a loop that is still running after that many turns never ends.
RECURSIVE scroll_until_visible(_, _, _)
scroll_until_visible(s, c, fuel) ==
    IF get_last_col(s.col0) >= c THEN s
    ELSE IF fuel = 0 THEN [s EXCEPT !.hung = TRUE]
    ELSE scroll_until_visible(move_to_col(s, s.col0 + 1), c, fuel - 1)

\* grid.py:558-584. dr is "top", "bottom", or a number of rows written "+1",
\* "-1" or "0".
rows_of(dr) == IF dr = "+1" THEN 1 ELSE IF dr = "-1" THEN 0 - 1 ELSE 0

move(s, dr, dc, m) ==
    IF show_cursor
    THEN LET d == IF dr = "top" THEN PySub(PyInt(0), s.cr)
                  ELSE IF dr = "bottom" THEN PySub(PyInt(m.rows - 1), s.cr)
                  ELSE PyInt(rows_of(dr))
             r == PyClip(PyInt(0), PyAdd(s.cr, d), PyInt(m.rows - 1))
             c == clip(0, s.cc + dc, num_cols - 1)
             s1 == IF PyLt(r, s.idx0) THEN move_by(s, PySub(r, s.idx0), m)
                   ELSE IF ~PyLt(r, s.idx1)
                        THEN move_by(s, PyAdd(PySub(r, s.idx1), PyInt(1)), m)
                        ELSE s
             s2 == IF c < s1.col0 THEN move_to_col(s1, c) ELSE s1
             s3 == scroll_until_visible(s2, c, num_cols + num_frozen + 2)
         IN IF s3.hung THEN s3 ELSE [s3 EXCEPT !.cr = r, !.cc = c]
    ELSE LET d == IF dr = "top" THEN PySub(PyInt(0), s.idx0)
                  ELSE IF dr = "bottom" THEN PyInt(m.rows - num_rows)
                  ELSE PyInt(rows_of(dr))
             s1 == IF d.v # 0 THEN move_by(s, d, m) ELSE s
         IN IF dc # 0 THEN move_to_col(s1, s1.col0 + dc) ELSE s1

\* move_to_end without the read of the whole source.
move_to_end_unread(s, m) ==
    move_to(s, PySub(PyInt(m.rows), PyInt(num_rows)), m)

\* grid.py:724-726
move_to_end(s, m) ==
    LET e == ensure_rows(m, PyInt(maxsize))
    IN move_to(s, PySub(e.ret, PyInt(num_rows)), e)

\* ------------------------------------------------------------- the render
\* The columns one printed line visits (grid.py:771, 808): the frozen ones,
\* then col0 onwards.
RECURSIVE range(_, _)
range(a, b) == IF a >= b THEN <<>> ELSE <<a>> \o range(a + 1, b)

\* grid.py:771-795 and 808-833: a line's loop over its columns, which stops
\* once x reaches the screen width. TRUE when it indexes a column that the
\* names, the formatters and the row do not have.
RECURSIVE line_fails(_, _)
line_fails(cols, x) ==
    IF cols = <<>> THEN FALSE
    ELSE IF Head(cols) >= num_cols THEN TRUE
    ELSE LET x1 == x + width(formatters[Head(cols)])
             x2 == x1 + SEPARATORS[separator + 1]
         IN IF x1 >= screen_width \/ x2 >= screen_width THEN FALSE
            ELSE line_fails(Tail(cols), x2)

columns_fail(c0) == line_fails(range(0, num_frozen) \o range(c0, num_cols), 0)

\* The rows the data loop reads (grid.py:801-807): idx0 + i below num_rows.
rows_read(i0, n) == {i \in 0 .. num_rows - 1 : i0.v + 2 * i < 2 * n}

\* list[idx] for a list of n items: a float index is a TypeError, an index
\* outside -n..n-1 an IndexError, a negative one inside it wraps round.
index_error(idx, n) == idx.v >= 2 * n \/ idx.v < 0 - 2 * n
index_wraps(idx, n) == idx.v < 0 /\ ~index_error(idx, n)

\* grid.py:763-835, the title, header and data lines of __print: the exception
\* they end with, "" for none.
print_lines(i0, n, c0) ==
    LET read == rows_read(i0, n)
    IN IF Len(title_lines) > 0 THEN "TypeError"                        \* line 765
       ELSE IF show_header /\ columns_fail(c0) THEN "IndexError"  \* line 775
       ELSE IF read # {} /\ i0.f THEN "TypeError"                 \* line 805
       ELSE IF \E i \in read : index_error(PyAdd(i0, PyInt(i)), n)
            THEN "IndexError"                                     \* line 805
       ELSE IF read # {} /\ columns_fail(c0) THEN "IndexError"    \* line 816
       ELSE ""

\* grid.py:840-842: the footer shows the flash status once and clears it.
print_flash(i0, n, c0) ==
    IF show_footer /\ print_lines(i0, n, c0) = "" THEN "None" ELSE flash

\* grid.py:733-865, __print: the exception it ends with, "" for none.
print(i0, n, c0, cur) ==
    IF print_lines(i0, n, c0) # "" THEN print_lines(i0, n, c0)
    ELSE IF show_footer /\ show_cursor /\ cur[1].f THEN "TypeError"
    ELSE IF show_footer /\ show_cursor
            /\ (index_error(cur[1], n) \/ index_error(PyInt(cur[2]), num_cols))
         THEN "IndexError"                                        \* line 858
    ELSE IF show_footer /\ num_rows < 0 THEN "curses.error"       \* line 865
    ELSE ""

\* The render read an index outside the table that Python took as counting
\* from the end.
print_wraps(i0, n, cur) ==
    \/ \E i \in rows_read(i0, n) : index_wraps(PyAdd(i0, PyInt(i)), n)
    \/ show_footer /\ show_cursor
       /\ (index_wraps(cur[1], n) \/ index_wraps(PyInt(cur[2]), num_cols))

\* ----------------------------------------------------------------- actions
\* grid.py:445-526 after DelimitedFileModel.__init__ (grid.py:232-285) and
\* show_model (grid.py:927-938): the default configuration, a table, a
\* terminal. Row navigation reads no column width and column navigation no
\* row count (grid.py:547-603), so the runs are of two kinds: a table of one
\* narrow column on a terminal of every height, and a table of one row with
\* every column layout on a terminal of every width.
InitView ==
    /\ ret = PyInt(0)
    /\ formatters \in [0 .. num_cols - 1 -> DefaultFormatters]
    /\ col0 = num_frozen
    /\ idx0 = PyInt(0)
    /\ cursor = <<PyInt(0), 0>>
    /\ show_cursor = FALSE
    /\ show_header = TRUE
    /\ show_footer = TRUE
    /\ separator = 0
    /\ \E t \in terminals : screen_width = t[1] /\ screen_height = t[2]
    /\ num_rows = screen_height - extra_lines(TRUE, TRUE)
    /\ idx1 = PyAdd(idx0, PyInt(num_rows))
    /\ fmt_args = <<>>
    /\ fmt_value = 0
    /\ fmt_result = <<>>
    /\ searchTerm = "None"
    /\ flash = "None"
    /\ NoFile
    /\ pc = "show"
    /\ exc = ""
    /\ wrapped = FALSE

\* A table of one column on a terminal of a few lines. No constructed model
\* has title lines: grid.py:316-319 collects them only from leading comment
\* lines, and its call of the undefined __read_line fails the construction on
\* the first of them.
InitRows ==
    /\ rows \in 1 .. MaxSample
    /\ more \in 0 .. MaxMore
    /\ num_cols = 1
    /\ num_frozen = 0
    /\ done = FALSE
    /\ title_lines = <<>>
    /\ terminals = {DefaultWidth} \X (1 .. MaxLines)
    /\ InitView
    /\ formatters[0] = BoolFormatter(<<"T">>, <<"F">>, None, FALSE)

\* A table of one row and several columns, some frozen, on a terminal of
\* the default height that is wide or narrow.
InitCols ==
    /\ rows = 1
    /\ more = 0
    /\ done = FALSE
    /\ num_cols \in 1 .. MaxCols
    /\ num_frozen \in 0 .. MaxFrozen
    /\ title_lines = <<>>
    /\ terminals = {NarrowWidth, DefaultWidth} \X {DefaultHeight}
    /\ InitView

Init == InitRows \/ InitCols

\* grid.py:656-662: one turn of show() up to the read of the next key.
Show ==
    /\ pc = "show"
    /\ LET load == idx1.v >= 2 * rows
           e == IF load THEN ensure_rows(Model, idx1)
                ELSE [rows |-> rows, more |-> more, done |-> done, ret |-> idx1]
           i1 == e.ret
           i0 == IF load THEN PyMin(idx0, PySub(i1, PyInt(1))) ELSE idx0
           x == print(i0, e.rows, col0, cursor)
       IN /\ rows' = e.rows /\ more' = e.more /\ done' = e.done
          /\ idx0' = i0 /\ idx1' = i1
          /\ exc' = x
          /\ wrapped' = print_wraps(i0, e.rows, cursor)
          /\ flash' = print_flash(i0, e.rows, col0)
          /\ pc' = IF x = "" THEN "key" ELSE "crashed"
    /\ UNCHANGED <<ret, num_cols, title_lines, num_frozen, terminals, fmt_args, fmt_value,
                   fmt_result, searchTerm, fileVars, formatters, col0, cursor, show_cursor, show_header,
                   show_footer, separator, screen_width, screen_height, num_rows>>

\* A key handler that only navigates: the view after it, the model after it.
Navigate(s, m) ==
    /\ pc = "key"
    /\ idx0' = s.idx0 /\ idx1' = s.idx1 /\ col0' = s.col0
    /\ cursor' = <<s.cr, s.cc>>
    /\ pc' = IF s.hung THEN "hung" ELSE "show"
    /\ rows' = m.rows /\ more' = m.more /\ done' = m.done
    /\ UNCHANGED <<ret, staticVars, formatters, show_cursor, show_header, show_footer,
                   separator, screen_width, screen_height, num_rows, exc, wrapped>>

\* grid.py:467-468, 'p' 'g'
KeyFirstRow == Navigate(move_to(View, PyInt(0), Model), Model)
\* grid.py:469, 'P'
KeyFirstCell == Navigate(move_to_col(move_to(View, PyInt(0), Model), 0), Model)
\* grid.py:470-471, Home
KeyHome == Navigate(move(View, "top", 0, Model), Model)
\* grid.py:473-475, 'e' 'j' RET
KeyLineDown == Navigate(move_by(View, PyInt(1), Model), Model)
\* grid.py:476, down arrow
KeyDown == Navigate(move(View, "+1", 0, Model), Model)
\* grid.py:478-479, 'y' 'k'
KeyLineUp == Navigate(move_by(View, PyInt(0 - 1), Model), Model)
\* grid.py:480, up arrow
KeyUp == Navigate(move(View, "-1", 0, Model), Model)
\* grid.py:482-485, SPACE 'f' 'z' PgDn
KeyPageDown == Navigate(move_by(View, PyInt(num_rows), Model), Model)
\* grid.py:487-489, 'b' 'w' PgUp
KeyPageUp == Navigate(move_by(View, PyInt(0 - num_rows), Model), Model)
\* grid.py:491, 'd': num_rows / 2 is a float
KeyHalfDown == Navigate(move_by(View, PyHalf(num_rows), Model), Model)
\* grid.py:492, 'u'
KeyHalfUp == Navigate(move_by(View, PyHalf(0 - num_rows), Model), Model)
\* grid.py:494, left arrow
KeyLeft == Navigate(move(View, "0", 0 - 1, Model), Model)
\* grid.py:495, right arrow
KeyRight == Navigate(move(View, "0", 1, Model), Model)
\* grid.py:497, 'G'
KeyLastRow == Navigate(move_to_end(View, Model), ensure_rows(Model, PyInt(maxsize)))
\* grid.py:498-499, End
KeyEnd == Navigate(move(View, "bottom", 0, Model), Model)

\* A key handler that leaves the offsets and the cursor alone.
Configure ==
    /\ pc = "key"
    /\ pc' = "show"
    /\ UNCHANGED <<modelVars, staticVars, formatters, col0, idx0, cursor, exc, wrapped>>

\* grid.py:533-544 with a terminal of width w and height h.
set_geometry(w, h, hdr, ftr) ==
    /\ screen_width' = w
    /\ screen_height' = h
    /\ num_rows' = h - extra_lines(hdr, ftr)
    /\ idx1' = PyAdd(idx0, PyInt(h - extra_lines(hdr, ftr)))

\* grid.py:512-513 and 606-607, Insert
KeyToggleCursor ==
    /\ Configure
    /\ show_cursor' = ~show_cursor
    /\ UNCHANGED <<show_header, show_footer, separator, screen_width, screen_height,
                   num_rows, idx1>>
\* grid.py:514 and 610-616, '|'
KeyToggleSep ==
    /\ Configure
    /\ separator' = (separator + 1) % Len(SEPARATORS)
    /\ UNCHANGED <<show_cursor, show_header, show_footer, screen_width, screen_height,
                   num_rows, idx1>>
\* grid.py:515 and 619-621, 'H'
KeyToggleHeader ==
    /\ Configure
    /\ show_header' = ~show_header
    /\ set_geometry(screen_width, screen_height, ~show_header, show_footer)
    /\ UNCHANGED <<show_cursor, show_footer, separator>>
\* grid.py:516 and 624-626, 'F'
KeyToggleFooter ==
    /\ Configure
    /\ show_footer' = ~show_footer
    /\ set_geometry(screen_width, screen_height, show_header, ~show_footer)
    /\ UNCHANGED <<show_cursor, show_header, separator>>

\* formatter.changing(size=size) as grid.py:637-639 calls it: the constructor
\* of the formatter's class with its attributes and the new size.
change_size(f, dw) ==
    new([f EXCEPT !.size = IF f.size + dw > 1 THEN f.size + dw ELSE 1])

\* formatter.changing(precision=precision) as grid.py:651-653 calls it.
change_precision(f, dp) ==
    LET precision == (IF f.precision = None THEN 0 ELSE f.precision) + dp
    IN new([f EXCEPT !.precision = IF precision <= 0 THEN None ELSE precision])

\* grid.py:634, 647: every formatter has a size, those of floats a precision.
has_precision(f) == f.cls \in {"Float", "Scientific"}

\* Edit without the test of the cursor mode.
Edit_without_cursor(applies, n) ==
    /\ pc = "key"
    /\ IF applies
       THEN IF n.exc = ""
            THEN /\ formatters' = [formatters EXCEPT ![cursor[2]] = n.f]
                 /\ pc' = "show"
                 /\ exc' = exc
            ELSE /\ formatters' = formatters
                 /\ pc' = "crashed"
                 /\ exc' = n.exc
       ELSE /\ formatters' = formatters
            /\ pc' = "show"
            /\ exc' = exc
    /\ UNCHANGED <<modelVars, staticVars, col0, idx0, idx1, cursor, show_cursor,
                   show_header, show_footer, separator, screen_width, screen_height,
                   num_rows, wrapped>>

\* The handler of a key that edits the formatter of the cursor's column:
\* `applies` is that the formatter has the attribute, n what changing()
\* gives. An exception of the constructor ends show().
Edit(applies, n) ==
    /\ pc = "key"
    /\ IF show_cursor /\ applies
       THEN IF n.exc = ""
            THEN /\ formatters' = [formatters EXCEPT ![cursor[2]] = n.f]
                 /\ pc' = "show"
                 /\ exc' = exc
            ELSE /\ formatters' = formatters
                 /\ pc' = "crashed"
                 /\ exc' = n.exc
       ELSE /\ formatters' = formatters
            /\ pc' = "show"
            /\ exc' = exc
    /\ UNCHANGED <<modelVars, staticVars, col0, idx0, idx1, cursor, show_cursor,
                   show_header, show_footer, separator, screen_width, screen_height,
                   num_rows, wrapped>>

\* grid.py:518 and 629-639, ','. The sizes stop at MaxSize + 1 in the model.
KeyShrink == Edit(TRUE, change_size(formatters[cursor[2]], 0 - 1))
\* grid.py:519 and 629-639, '.'
KeyGrow ==
    /\ formatters[cursor[2]].size <= MaxSize
    /\ Edit(TRUE, change_size(formatters[cursor[2]], 1))
\* grid.py:520 and 642-653, '<'
KeyLessPrecision ==
    Edit(has_precision(formatters[cursor[2]]),
         IF has_precision(formatters[cursor[2]])
         THEN change_precision(formatters[cursor[2]], 0 - 1)
         ELSE [exc |-> "", f |-> formatters[cursor[2]]])
\* grid.py:521 and 642-653, '>'. The precisions stop at MaxPrecision + 1 in
\* the model.
KeyMorePrecision ==
    /\ has_precision(formatters[cursor[2]])
          => formatters[cursor[2]].precision <= MaxPrecision
    /\ Edit(has_precision(formatters[cursor[2]]),
            IF has_precision(formatters[cursor[2]])
            THEN change_precision(formatters[cursor[2]], 1)
            ELSE [exc |-> "", f |-> formatters[cursor[2]]])

\* The patterns typed at the search prompt: one that matches the text of a
\* Bool cell showing true, one that matches no cell.
Patterns == {"T", "x"}

\* grid.py:691-717, _nextSearchOccurrence: what it leaves in flash and the
\* exception it raises, "" for none. Past the test of line 697 it reads
\* self.num_rows (line 700), an attribute GridView does not have; the loop
\* over the rows and cells (lines 706-717) reads self.sampleMatrix and
\* self.columns, which GridView does not have either.
nextSearchOccurrence(term, dir, includeCurrentLine, scanToColumn) ==
    LET i == PyAdd(idx0, PyInt(IF includeCurrentLine \/ scanToColumn THEN 0 ELSE dir))
    IN IF term = "None" THEN [flash |-> flash, exc |-> ""]                   \* 693-694
       ELSE IF i.v < 0 THEN [flash |-> "Pattern not found", exc |-> ""]     \* 697-699
       ELSE [flash |-> flash, exc |-> "AttributeError"]                     \* 700

\* A key that searches: searchTerm as the handler leaves it, then the call of
\* _nextSearchOccurrence. An exception ends show() and the program.
Search(term, dir, includeCurrentLine, scanToColumn) ==
    /\ pc = "key"
    /\ searchTerm' = term
    /\ LET r == nextSearchOccurrence(term, dir, includeCurrentLine, scanToColumn)
       IN /\ flash' = r.flash
          /\ exc' = r.exc
          /\ pc' = IF r.exc = "" THEN "show" ELSE "crashed"
    /\ UNCHANGED <<modelVars, num_cols, title_lines, num_frozen, terminals, fmt_args, fmt_value,
                   fmt_result, fileVars, formatters, col0, idx0, idx1, cursor, show_cursor,
                   show_header, show_footer, separator, screen_width, screen_height,
                   num_rows, wrapped>>

\* grid.py:676-688, __do_search: the pattern read at the prompt; an empty one
\* clears searchTerm and searches nothing.
do_search(dir) ==
    \E pattern \in Patterns \cup {""} :
        Search(IF pattern = "" THEN "None" ELSE pattern, dir, TRUE, FALSE)

\* grid.py:504, '/'
KeySearchForward == do_search(1)
\* grid.py:505, '?'
KeySearchBackward == do_search(0 - 1)
\* grid.py:506, 'n'
KeyNextOccurrence == Search(searchTerm, 1, FALSE, FALSE)
\* grid.py:507, 'N'
KeyPrevOccurrence == Search(searchTerm, 0 - 1, FALSE, FALSE)
\* grid.py:508, 'c'
KeyNextInColumns == Search(searchTerm, 1, FALSE, TRUE)
\* grid.py:509, 'C'
KeyPrevInColumns == Search(searchTerm, 0 - 1, FALSE, TRUE)

\* grid.py:523, the window was resized: the terminal has a new size.
KeyResize ==
    /\ Configure
    /\ \E t \in terminals : set_geometry(t[1], t[2], show_header, show_footer)
    /\ UNCHANGED <<show_cursor, show_header, show_footer, separator>>
\* grid.py:665-666, 'q' 'Q'
KeyQuit ==
    /\ pc = "key"
    /\ pc' = "quit"
    /\ UNCHANGED <<modelVars, staticVars, formatters, col0, idx0, idx1, cursor,
                   show_cursor, show_header, show_footer, separator, screen_width,
                   screen_height, num_rows, exc, wrapped>>

Next ==
    \/ Show
    \/ KeyFirstRow \/ KeyFirstCell \/ KeyHome
    \/ KeyLineDown \/ KeyDown \/ KeyLineUp \/ KeyUp
    \/ KeyPageDown \/ KeyPageUp \/ KeyHalfDown \/ KeyHalfUp
    \/ KeyLeft \/ KeyRight \/ KeyLastRow \/ KeyEnd
    \/ KeySearchForward \/ KeySearchBackward \/ KeyNextOccurrence \/ KeyPrevOccurrence
    \/ KeyNextInColumns \/ KeyPrevInColumns
    \/ KeyToggleCursor \/ KeyToggleSep \/ KeyToggleHeader \/ KeyToggleFooter
    \/ KeyResize \/ KeyQuit

Spec == Init /\ [][Next]_vars

\* ------------------------------------------------- the table model on its own
\* The row indexes requested: around the index at which the SAMPLELINES rows
\* read ahead stop short of the end of the source, around the row counts, and
\* the index that asks for everything.
Requests ==
    ((0 - SAMPLELINES - 1) .. (MaxSample + MaxSource - SAMPLELINES))
        \cup ((0 - 1) .. (MaxSample + MaxSource + 1)) \cup {maxsize}

\* grid.py:232-285: a DelimitedFileModel after construction, no view attached.
InitModel ==
    /\ rows \in 1 .. MaxSample
    /\ more \in 0 .. MaxSource
    /\ done = FALSE
    /\ ret = PyInt(0)
    /\ num_cols = 1
    /\ num_frozen = 0
    /\ title_lines = <<>>
    /\ formatters = [c \in {0} |-> BoolFormatter(<<"T">>, <<"F">>, None, FALSE)]
    /\ terminals = {<<DefaultWidth, DefaultHeight>>}
    /\ screen_width = DefaultWidth
    /\ screen_height = DefaultHeight
    /\ num_rows = DefaultHeight - extra_lines(TRUE, TRUE)
    /\ col0 = 0
    /\ idx0 = PyInt(0)
    /\ idx1 = PyInt(0)
    /\ cursor = <<PyInt(0), 0>>
    /\ show_cursor = FALSE
    /\ show_header = TRUE
    /\ show_footer = TRUE
    /\ separator = 0
    /\ fmt_args = <<>>
    /\ fmt_value = 0
    /\ fmt_result = <<>>
    /\ searchTerm = "None"
    /\ flash = "None"
    /\ NoFile
    /\ pc = "call"
    /\ exc = ""
    /\ wrapped = FALSE

\* grid.py:352-364: model.ensure_rows(k); pc keeps the branch of
\* `if not self.done` the call took.
EnsureRows(k) ==
    /\ pc \in {"call", "read", "skip"}
    /\ LET e == ensure_rows(Model, PyInt(k))
       IN /\ rows' = e.rows /\ more' = e.more /\ done' = e.done
          /\ ret' = e.ret
    /\ pc' = IF done THEN "skip" ELSE "read"
    /\ UNCHANGED <<staticVars, formatters, col0, idx0, idx1, cursor, show_cursor,
                   show_header, show_footer, separator, screen_width, screen_height,
                   num_rows, exc, wrapped>>

NextModel == \E k \in Requests : EnsureRows(k)

SpecModel == InitModel /\ [][NextModel]_vars

\* ------------------------------------------------- the formatters on their own
Signs == {"None", "-", "+"}
Pads == {" ", "0"}
Precisions == {None} \cup (0 .. MaxPrecision)
\* The nan_str and inf_str defaults of the constructors (formatters.py:182,
\* 351) and of DEFAULT_CFG (grid.py:46-47).
NaN_str == <<"N", "a", "N">>
Inf_strs == {<<"I", "n", "f">>, <<"oo">>}

Floats ==
    {[kind |-> "nan", q |-> 0], [kind |-> "inf", q |-> 1], [kind |-> "inf", q |-> 0 - 1]}
        \cup {[kind |-> "fin", q |-> q] : q \in (0 - MaxQuarters) .. MaxQuarters}
Ints == (0 - MaxInt) .. MaxInt
Strings == {[i \in 1 .. n |-> DIGITS[((i - 1) % 10) + 1]] : n \in 0 .. MaxStr}

BoolFormatters ==
    {BoolFormatter(t[1], t[2], size, left) :
        t \in {<<(<<"T">>), (<<"F">>)>>,
               <<(<<"T", "r", "u", "e">>), (<<"F", "a", "l", "s", "e">>)>>},
        size \in {None} \cup (0 .. MaxSize), left \in BOOLEAN}
IntFormatters ==
    {IntFormatter(size, padch, sign) :
        size \in 0 .. MaxSize, padch \in Pads, sign \in Signs}
\* formatters.py:197-206: the constructor's assertions hold.
FloatFormatters ==
    {FloatFormatter(c[1], c[2], c[3], c[4], <<".">>, NaN_str, c[5]) :
        c \in {d \in (0 .. MaxSize) \X Precisions \X Pads \X Signs \X Inf_strs :
                 /\ Len(NaN_str) <= Float_digits_width(d[1], d[2], <<".">>)
                 /\ Len(d[5]) <= Float_digits_width(d[1], d[2], <<".">>)}}
\* formatters.py:364-369: the assertions hold and precision is an integer.
ScientificFloatFormatters ==
    {ScientificFloatFormatter(size, precision, " ", sign, <<".">>, <<"E">>, NaN_str, inf) :
        size \in 0 .. MaxSize, precision \in 0 .. MaxPrecision, sign \in Signs,
        inf \in Inf_strs}
StrFormatters ==
    {StrFormatter(size, ellipsis, " ", position, left) :
        size \in 0 .. MaxSize, ellipsis \in {<<"...">>, <<".", ".", ".">>},
        position \in {0, 1, 2}, left \in BOOLEAN}

\* The values format is declared for, by the formatter's class.
Domain(f) ==
    CASE f.cls = "Bool" -> BOOLEAN
      [] f.cls = "Int" -> Ints
      [] f.cls \in {"Float", "Scientific"} -> Floats
      [] f.cls = "Str" -> Strings

\* A constructed formatter and a value of its domain, no table and no view.
InitFmt ==
    /\ \E f \in BoolFormatters \cup IntFormatters \cup FloatFormatters
                  \cup ScientificFloatFormatters \cup StrFormatters :
          /\ formatters = [c \in {0} |-> f]
          /\ fmt_value \in Domain(f)
    /\ fmt_args = <<>>
    /\ fmt_result = <<>>
    /\ searchTerm = "None"
    /\ flash = "None"
    /\ NoFile
    /\ rows = 1 /\ more = 0 /\ done = TRUE /\ ret = PyInt(0)
    /\ num_cols = 1
    /\ num_frozen = 0
    /\ title_lines = <<>>
    /\ terminals = {<<DefaultWidth, DefaultHeight>>}
    /\ screen_width = DefaultWidth
    /\ screen_height = DefaultHeight
    /\ num_rows = DefaultHeight - extra_lines(TRUE, TRUE)
    /\ col0 = 0
    /\ idx0 = PyInt(0)
    /\ idx1 = PyInt(0)
    /\ cursor = <<PyInt(0), 0>>
    /\ show_cursor = FALSE
    /\ show_header = TRUE
    /\ show_footer = TRUE
    /\ separator = 0
    /\ pc = "format"
    /\ exc = ""
    /\ wrapped = FALSE

\* formatter.format(value): it returns a string or raises.
Format ==
    /\ pc = "format"
    /\ LET r == format(formatters[0], fmt_value)
       IN /\ fmt_result' = r.out
          /\ exc' = r.exc
          /\ pc' = IF r.exc = "" THEN "returned" ELSE "raised"
    /\ UNCHANGED <<modelVars, num_cols, title_lines, num_frozen, terminals, fmt_args, fmt_value,
                   searchTerm, flash, fileVars, formatters, col0, idx0, idx1, cursor, show_cursor, show_header,
                   show_footer, separator, screen_width, screen_height, num_rows,
                   wrapped>>

NextFmt == Format

SpecFmt == InitFmt /\ [][NextFmt]_vars

\* --------------------------------------------- constructing a formatter
\* The pads a configuration may name: none, one character, two characters.
AnyPads == {"", " ", "0", "x", "0 "}
\* A literal for NaN or Infinity of MaxSize + MaxPrecision + 3 characters.
LongStr == [i \in 1 .. MaxSize + MaxPrecision + 3 |-> "X"]

\* Arguments for the constructors of IntFormatter, FloatFormatter,
\* ScientificFloatFormatter and StrFormatter, the other arguments at their
\* defaults (formatters.py:79, 181-182, 349-350, 509-510).
Arguments ==
    {[cls |-> c[1], size |-> c[2], precision |-> c[3], pad |-> c[4], sign |-> "-",
      point |-> <<".">>, exp |-> <<"E">>, nan_str |-> c[5], inf_str |-> c[6],
      ellipsis |-> <<".", ".", ".">>, position |-> 2, pad_left |-> FALSE,
      true |-> <<"T">>, false |-> <<"F">>] :
        c \in {d \in {"Int", "Float", "Scientific", "Str"} \X (0 .. MaxSize) \X Precisions
                        \X AnyPads \X {NaN_str, LongStr} \X {<<"I", "n", "f">>, LongStr} :
                 /\ d[1] \in {"Int", "Str"}
                        => d[3] = None /\ d[5] = NaN_str /\ d[6] = <<"I", "n", "f">>
                 /\ d[5] = NaN_str \/ d[6] = <<"I", "n", "f">>}}

\* The values handed to the formatter once constructed.
NewValues(cls) ==
    CASE cls = "Int" -> {0 - 1, 0, 1, 10}
      [] cls \in {"Float", "Scientific"} ->
            {[kind |-> "nan", q |-> 0], [kind |-> "inf", q |-> 1],
             [kind |-> "inf", q |-> 0 - 1], [kind |-> "fin", q |-> Quarter],
             [kind |-> "fin", q |-> 0 - 10 * Quarter]}
      [] cls = "Str" -> Strings

\* Arguments for a constructor and a value for the formatter it gives.
InitNew ==
    /\ fmt_args \in Arguments
    /\ fmt_value \in NewValues(fmt_args.cls)
    /\ formatters = <<>>
    /\ fmt_result = <<>>
    /\ searchTerm = "None"
    /\ flash = "None"
    /\ NoFile
    /\ rows = 1 /\ more = 0 /\ done = TRUE /\ ret = PyInt(0)
    /\ num_cols = 1
    /\ num_frozen = 0
    /\ title_lines = <<>>
    /\ terminals = {<<DefaultWidth, DefaultHeight>>}
    /\ screen_width = DefaultWidth
    /\ screen_height = DefaultHeight
    /\ num_rows = DefaultHeight - extra_lines(TRUE, TRUE)
    /\ col0 = 0
    /\ idx0 = PyInt(0)
    /\ idx1 = PyInt(0)
    /\ cursor = <<PyInt(0), 0>>
    /\ show_cursor = FALSE
    /\ show_header = TRUE
    /\ show_footer = TRUE
    /\ separator = 0
    /\ pc = "new"
    /\ exc = ""
    /\ wrapped = FALSE

\* formatters.py:79-100, 181-221, 349-385, 509-516: the constructor is called.
New ==
    /\ pc = "new"
    /\ LET n == new(fmt_args)
       IN /\ exc' = n.exc
          /\ formatters' = IF n.exc = "" THEN [c \in {0} |-> n.f] ELSE formatters
          /\ pc' = IF n.exc = "" THEN "format" ELSE "rejected"
    /\ UNCHANGED <<modelVars, num_cols, title_lines, num_frozen, terminals, fmt_args,
                   fmt_value, fmt_result, searchTerm, flash, fileVars, col0, idx0, idx1,
                   cursor, show_cursor, show_header, show_footer, separator, screen_width,
                   screen_height, num_rows, wrapped>>

NextNew == New \/ Format

SpecNew == InitNew /\ [][NextNew]_vars

\* ------------------------------------------------ editing the formatters
\* grid.py:124-171, get_default_formatter: what it gives a column of each
\* type, with the literals of DEFAULT_CFG (grid.py:46-48, one character each
\* for U+221E and U+2026): an int or float column has a size of 1 or more, a
\* float column a precision from precision_min on, a str column a width of
\* str_width_min or more.
EditFormatters ==
    {BoolFormatter(<<"T">>, <<"F">>, None, FALSE)}
        \cup {IntFormatter(size, " ", "-") : size \in 1 .. MaxSize}
        \cup {FloatFormatter(size, precision, " ", "-", <<".">>, NaN_str, <<"oo">>) :
                 size \in 1 .. MaxSize, precision \in 1 .. MaxPrecision}
        \cup {StrFormatter(MaxSize + 1, <<"...">>, " ", 2, FALSE)}

\* A table of one row whose first column is of any type, shown on the default
\* terminal.
InitEdit ==
    /\ rows = 1
    /\ more = 0
    /\ done = FALSE
    /\ ret = PyInt(0)
    /\ num_cols \in 1 .. MaxCols
    /\ num_frozen = 0
    /\ title_lines = <<>>
    /\ terminals = {<<DefaultWidth, DefaultHeight>>}
    /\ formatters \in [0 .. num_cols - 1 -> EditFormatters]
    /\ \A c \in 1 .. num_cols - 1 : formatters[c] = BoolFormatter(<<"T">>, <<"F">>, None, FALSE)
    /\ col0 = 0
    /\ idx0 = PyInt(0)
    /\ cursor = <<PyInt(0), 0>>
    /\ show_cursor = FALSE
    /\ show_header = TRUE
    /\ show_footer = TRUE
    /\ separator = 0
    /\ screen_width = DefaultWidth
    /\ screen_height = DefaultHeight
    /\ num_rows = DefaultHeight - extra_lines(TRUE, TRUE)
    /\ idx1 = PyAdd(idx0, PyInt(num_rows))
    /\ fmt_args = <<>>
    /\ fmt_value = 0
    /\ fmt_result = <<>>
    /\ searchTerm = "None"
    /\ flash = "None"
    /\ NoFile
    /\ pc = "show"
    /\ exc = ""
    /\ wrapped = FALSE

NextEdit ==
    \/ Show
    \/ KeyToggleCursor \/ KeyLeft \/ KeyRight
    \/ KeyShrink \/ KeyGrow \/ KeyLessPrecision \/ KeyMorePrecision

SpecEdit == InitEdit /\ [][NextEdit]_vars

\* ------------------------------------------------ the guesses on their own
\* The strings a cell of a column sample is drawn from.
Cells ==
    {<<"t", "r", "u", "e">>, <<"F", "a", "l", "s", "e">>, <<"1">>, <<"-", "1">>,
     <<"1", ".", "5">>, <<>>, <<"a">>, <<"i", "n", "f">>, <<"1", "e", "1">>,
     <<"1", "_", "0">>, <<".">>, <<"-">>}

\* The cleaned lines a sample is drawn from: one field, fields separated by
\* one delimiter or by two, and the empty line.
SampleLines ==
    {<<"a">>, <<"a", ",", "a">>, <<"a", " ", "a">>, <<"a", "|", "a">>,
     <<"a", ",", "a", " ", "a">>, <<"a", "|", "a", ",", "a">>, <<"a", ",", "a", ",", "a">>,
     <<>>}

\* The samples of 1 .. n items of a set.
Samples(S, n) == UNION {[1 .. k -> S] : k \in 1 .. n}

\* No view is shown and no formatter is called.
NoView ==
    /\ formatters = [c \in {0} |-> BoolFormatter(<<"T">>, <<"F">>, None, FALSE)]
    /\ num_frozen = 0
    /\ terminals = {<<DefaultWidth, DefaultHeight>>}
    /\ screen_width = DefaultWidth
    /\ screen_height = DefaultHeight
    /\ num_rows = DefaultHeight - extra_lines(TRUE, TRUE)
    /\ col0 = 0
    /\ idx0 = PyInt(0)
    /\ idx1 = PyInt(0)
    /\ cursor = <<PyInt(0), 0>>
    /\ show_cursor = FALSE
    /\ show_header = TRUE
    /\ show_footer = TRUE
    /\ separator = 0
    /\ fmt_args = <<>>
    /\ fmt_value = 0
    /\ fmt_result = <<>>
    /\ searchTerm = "None"
    /\ flash = "None"
    /\ wrapped = FALSE

\* A column sample for guess_type, or a sample of lines for guess_delimiter.
InitGuess ==
    /\ \/ /\ values \in Samples(Cells, MaxSample)
          /\ source = <<>>
          /\ pc = "guess_type"
       \/ /\ values = <<>>
          /\ source \in Samples(SampleLines, MaxSample)
          /\ pc = "guess_delimiter"
    /\ types = <<>>
    /\ delimiter = "None"
    /\ comment_prefix = <<>>
    /\ has_header = FALSE
    /\ table = <<>>
    /\ names = <<>>
    /\ row = <<>>
    /\ rows = 0 /\ more = 0 /\ done = FALSE /\ ret = PyInt(0)
    /\ num_cols = 0
    /\ title_lines = <<>>
    /\ NoView
    /\ exc = ""

\* grid.py:95-111, guess_type(values)
GuessType ==
    /\ pc = "guess_type"
    /\ LET g == guess_type(values)
       IN /\ types' = <<g.type>>
          /\ exc' = g.exc
          /\ pc' = IF g.exc = "" THEN "type guessed" ELSE "raised"
    /\ UNCHANGED <<modelVars, num_cols, title_lines, source, comment_prefix, has_header,
                   table, names, delimiter, row, values, formatters, num_frozen, col0,
                   idx0, idx1, cursor, show_cursor, show_header, show_footer, separator,
                   screen_width, screen_height, num_rows, terminals, searchTerm, flash,
                   fmt_args, fmt_value, fmt_result, wrapped>>

\* grid.py:174-194, guess_delimiter(sample_lines)
GuessDelimiter ==
    /\ pc = "guess_delimiter"
    /\ delimiter' = guess_delimiter(source)
    /\ pc' = "delimiter guessed"
    /\ UNCHANGED <<modelVars, num_cols, title_lines, source, comment_prefix, has_header,
                   table, names, types, row, values, formatters, num_frozen, col0,
                   idx0, idx1, cursor, show_cursor, show_header, show_footer, separator,
                   screen_width, screen_height, num_rows, terminals, searchTerm, flash,
                   fmt_args, fmt_value, fmt_result, exc, wrapped>>

NextGuess == GuessType \/ GuessDelimiter

SpecGuess == InitGuess /\ [][NextGuess]_vars

\* ------------------------------------------------- the file on its own
\* The lines a file is made of: a blank line, a comment, a row of one number
\* after a space, and a row of two words.
FileLines ==
    {<<>>, <<"#", "c">>, <<" ", "1">>, <<"a", ",", "a">>}

\* The indexes ensure_rows is asked for: those whose read ahead stops at a row
\* past the sample, and the first row, whose read ahead takes the whole file.
FileRequests == {k - SAMPLELINES : k \in MaxSample + 1 .. MaxSource} \cup {0}

\* A file of up to MaxSource lines, about to be loaded, with or without a
\* header and a comment prefix; the sample size is MaxSample.
InitFile ==
    /\ source \in UNION {[1 .. k -> FileLines] : k \in 0 .. MaxSource}
    /\ comment_prefix \in {<<>>, << <<"#">> >>}
    /\ has_header \in BOOLEAN
    /\ table = <<>>
    /\ names = <<>>
    /\ types = <<>>
    /\ delimiter = "None"
    /\ row = <<>>
    /\ values = <<>>
    /\ rows = 0 /\ more = 0 /\ done = FALSE /\ ret = PyInt(0)
    /\ num_cols = 0
    /\ title_lines = <<>>
    /\ NoView
    /\ pc = "construct"
    /\ exc = ""

\* grid.py:232-285, DelimitedFileModel(lines, has_header, num_sample, None,
\* comment_prefix, filename)
Construct ==
    /\ pc = "construct"
    /\ LET m == DelimitedFileModel(source, has_header, MaxSample, comment_prefix)
       IN /\ exc' = m.exc
          /\ pc' = IF m.exc = "" THEN "ready" ELSE "raised"
          /\ table' = m.table
          /\ rows' = Len(m.table)
          /\ names' = m.names
          /\ num_cols' = m.num_cols
          /\ types' = m.types
          /\ delimiter' = m.delimiter
          /\ title_lines' = m.title_lines
          /\ source' = m.rest
          /\ more' = Cardinality({k \in 1 .. Len(m.rest) :
                                     ~is_comment(comment_prefix, clean_line(m.rest[k]))})
    /\ UNCHANGED <<done, ret, comment_prefix, has_header, row, values, formatters,
                   num_frozen, col0, idx0, idx1, cursor, show_cursor, show_header,
                   show_footer, separator, screen_width, screen_height, num_rows,
                   terminals, searchTerm, flash, fmt_args, fmt_value, fmt_result, wrapped>>

\* grid.py:352-364, model.ensure_rows(k) on the rows of the file.
FileEnsureRows(k) ==
    /\ pc \in {"ready", "row"}
    /\ LET e == IF done THEN [table |-> table, rest |-> source, done |-> TRUE]
                ELSE more_rows(table, source, comment_prefix, delimiter, k + SAMPLELINES)
       IN /\ table' = e.table
          /\ rows' = Len(e.table)
          /\ source' = e.rest
          /\ more' = Cardinality({h \in 1 .. Len(e.rest) :
                                     ~is_comment(comment_prefix, clean_line(e.rest[h]))})
          /\ done' = e.done
          /\ ret' = PyMin(PyInt(k), PyInt(Len(e.table)))
    /\ pc' = "ready"
    /\ UNCHANGED <<num_cols, title_lines, comment_prefix, has_header, names, types,
                   delimiter, row, values, exc, formatters, num_frozen, col0, idx0, idx1,
                   cursor, show_cursor, show_header, show_footer, separator, screen_width,
                   screen_height, num_rows, terminals, searchTerm, flash, fmt_args, fmt_value,
                   fmt_result, wrapped>>

\* grid.py:346-349, model.get_row(idx)
GetRow(idx) ==
    /\ pc \in {"ready", "row"}
    /\ LET g == get_row(table, types, idx)
       IN /\ row' = g.row
          /\ exc' = g.exc
          /\ pc' = IF g.exc = "" THEN "row" ELSE "raised"
    /\ UNCHANGED <<modelVars, num_cols, title_lines, source, comment_prefix, has_header,
                   table, names, types, delimiter, values, formatters, num_frozen, col0,
                   idx0, idx1, cursor, show_cursor, show_header, show_footer, separator,
                   screen_width, screen_height, num_rows, terminals, searchTerm, flash,
                   fmt_args, fmt_value, fmt_result, wrapped>>

NextFile ==
    \/ Construct
    \/ \E k \in FileRequests : FileEnsureRows(k)
    \/ \E idx \in 0 .. Len(table) : GetRow(idx)

SpecFile == InitFile /\ [][NextFile]_vars

\* ------------------------------------- the default formatter of a float column
\* The powers of ten the sampled values stand just below.
MaxDecade == 2

\* grid.py:114-121: the digits of the integral part of q / Quarter, q >= 0.
get_size(q) ==
    IF q = 0 THEN 1
    ELSE IF floor_log10(q, Quarter) + 1 > 1 THEN floor_log10(q, Quarter) + 1
    ELSE 1

\* grid.py:141: the values of the sample that are neither NaN nor infinite.
finite_vals(sample) == SelectSeq(sample, LAMBDA v : v.kind = "fin")

\* grid.py:148-152: the first precision of the range at which rounding moves
\* every finite value by less than tol = 10 ** -precision_max / 2, and
\* precision_max, where the loop ends, when there is none. The comparison is
\* done on integers: |round(v, p) - v| < tol, both sides times
\* 2 * Quarter * 10 ** p * 10 ** precision_max.
get_precision(vals, precision_min, precision_max) ==
    LET moved(q, p) == Abs(py_round(Abs(q) * pow10(p), Quarter) * Quarter
                               - Abs(q) * pow10(p))
        close(p) == \A i \in 1 .. Len(vals) :
                        2 * pow10(precision_max) * moved(vals[i].q, p)
                            < Quarter * pow10(p)
        passing == {p \in precision_min .. precision_max : close(p)}
    IN IF passing = {} THEN precision_max
       ELSE CHOOSE p \in passing : \A o \in passing : p <= o

\* grid.py:138-154: the arguments get_default_formatter hands to FloatFormatter
\* for a float column with this sample, the other arguments at the
\* constructor's defaults (formatters.py:181-182).
get_default_formatter(sample, cfg) ==
    LET vals == finite_vals(sample)
        largest == CHOOSE q \in {Abs(vals[i].q) : i \in 1 .. Len(vals)} :
                       \A i \in 1 .. Len(vals) : Abs(vals[i].q) <= q
    IN [cls |-> "Float",
        size |-> IF Len(vals) = 0 THEN 1 ELSE get_size(largest),
        precision |-> get_precision(vals, cfg.precision_min, cfg.precision_max),
        pad |-> " ", sign |-> "-", point |-> <<".">>, exp |-> <<"E">>,
        nan_str |-> cfg.nan_string, inf_str |-> cfg.inf_string,
        ellipsis |-> <<".", ".", ".">>, position |-> 2, pad_left |-> FALSE,
        true |-> <<"T">>, false |-> <<"F">>]

\* The values of a sample: NaN, the infinities, zero, and the numbers up to
\* one below each power of ten, in quarters, with either sign.
SampledFloats ==
    {[kind |-> "nan", q |-> 0], [kind |-> "inf", q |-> 1], [kind |-> "inf", q |-> 0 - 1],
     [kind |-> "fin", q |-> 0]}
        \cup {[kind |-> "fin", q |-> s * (pow10(k) * Quarter - d)] :
                 s \in {0 - 1, 1}, k \in 0 .. MaxDecade, d \in 0 .. Quarter}

\* The configurations: every precision range within 0 .. MaxPrecision, the
\* literals those of DEFAULT_CFG (grid.py:41-53), U+221E written "oo".
Configurations ==
    {[precision_min |-> lo, precision_max |-> hi, nan_string |-> NaN_str,
      inf_string |-> <<"oo">>] : lo \in 0 .. MaxPrecision, hi \in 0 .. MaxPrecision}

\* A sample of a float column, the configuration and one of the sample's
\* values to render; fmt_args holds the configuration until the formatter is
\* asked for.
InitDefault ==
    /\ values \in Samples(SampledFloats, MaxSample)
    /\ fmt_value \in {values[i] : i \in 1 .. Len(values)}
    /\ fmt_args \in {c \in Configurations : c.precision_min <= c.precision_max}
    /\ formatters = <<>>
    /\ fmt_result = <<>>
    /\ searchTerm = "None"
    /\ flash = "None"
    /\ source = <<>>
    /\ comment_prefix = <<>>
    /\ has_header = FALSE
    /\ table = <<>>
    /\ names = <<>>
    /\ types = <<"float">>
    /\ delimiter = "None"
    /\ row = <<>>
    /\ rows = 1 /\ more = 0 /\ done = TRUE /\ ret = PyInt(0)
    /\ num_cols = 1
    /\ num_frozen = 0
    /\ title_lines = <<>>
    /\ terminals = {<<DefaultWidth, DefaultHeight>>}
    /\ screen_width = DefaultWidth
    /\ screen_height = DefaultHeight
    /\ num_rows = DefaultHeight - extra_lines(TRUE, TRUE)
    /\ col0 = 0
    /\ idx0 = PyInt(0)
    /\ idx1 = PyInt(0)
    /\ cursor = <<PyInt(0), 0>>
    /\ show_cursor = FALSE
    /\ show_header = TRUE
    /\ show_footer = TRUE
    /\ separator = 0
    /\ pc = "default"
    /\ exc = ""
    /\ wrapped = FALSE

\* grid.py:138-154: get_default_formatter for the float column; it returns the
\* formatter or the constructor raises.
GetDefaultFormatter ==
    /\ pc = "default"
    /\ LET a == get_default_formatter(values, fmt_args)
           n == new(a)
       IN /\ fmt_args' = a
          /\ exc' = n.exc
          /\ formatters' = IF n.exc = "" THEN [c \in {0} |-> n.f] ELSE formatters
          /\ pc' = IF n.exc = "" THEN "format" ELSE "rejected"
    /\ UNCHANGED <<modelVars, num_cols, title_lines, num_frozen, terminals,
                   fmt_value, fmt_result, searchTerm, flash, fileVars, col0, idx0, idx1,
                   cursor, show_cursor, show_header, show_footer, separator, screen_width,
                   screen_height, num_rows, wrapped>>

NextDefault == GetDefaultFormatter \/ Format

SpecDefault == InitDefault /\ [][NextDefault]_vars

\* ------------------------------------------------------------------ claims
\* C1: after any sequence of move_to, move_by and move_to_column calls, for
\* any table geometry and viewport height, row_offset (idx0) is >= 0.
C1_RowOffsetNonNegative == idx0.v >= 0

Max(a, b) == IF a > b THEN a ELSE b

\* C2, as claimed: whenever the table is done, row_offset is at most
\* max(0, row_count - viewport_height): the view never scrolls past the
\* position where the last row is the last visible row.
C2_OffsetKeepsLastRowAtBottom == done => idx0.v <= 2 * Max(0, rows - num_rows)

\* C2, amended: whenever the table is done, row_offset is at most
\* max(0, row_count - 1): the view never scrolls past the position where the
\* last row is the first visible row.
C2_OffsetAtMostLastRow == done => idx0.v <= 2 * Max(0, rows - 1)

\* A done table of several rows, a viewport of several lines, and the view
\* scrolled until the last row is its first line.
C2_Witness ==
    /\ done /\ rows > 1 /\ num_rows > 1 /\ pc = "show"
    /\ idx0 = PyInt(rows - 1)

\* C3: for the incremental model, a call ensure_rows(k) with any k never
\* decreases row_count, and once is_done is true every further ensure_rows
\* call leaves row_count and is_done unchanged.
C3_RowCountMonotone ==
    [][\A k \in Requests :
         EnsureRows(k) => /\ rows' >= rows
                          /\ done => (rows' = rows /\ done')]_vars

\* A call on a model that was already done, after reads that grew the table
\* beyond its sample and exhausted the source.
C3_Witness == pc = "skip" /\ done /\ rows > MaxSample /\ more = 0

\* C4: for every formatter (Bool, Int, Float, Scientific, String) with a
\* valid configuration and every input in its declared domain, including
\* values that overflow, NaN and +/-Infinity, format(x) is a string whose
\* length equals the formatter's width exactly.
C4_FormatLengthIsWidth ==
    pc \in {"returned", "raised"} =>
        /\ exc = ""
        /\ Len(fmt_result) = width(formatters[0])

\* C5: in every reachable state of the view, after any sequence of commands
\* (scrolling, cursor moves, header/footer toggles, window resize and the
\* render loop's row loading), cursor.row lies within
\* [row_offset, row_offset + viewport_height). Stated for the viewports of at
\* least one line, the only ones in which that range has a row.
C5_CursorRowInViewport ==
    num_rows >= 1 =>
        /\ idx0.v <= cursor[1].v
        /\ cursor[1].v < idx0.v + 2 * num_rows

\* C6: in every reachable state of the view, for any column widths and screen
\* width, cursor.col is either >= leftmost_scrollable_column (col0) or
\* < frozen_count: the cursor column is never a scrolled-off column.
C6_CursorColNotHidden == cursor[2] >= col0 \/ cursor[2] < num_frozen

\* The row offset C7 claims for move_to(line).
clamped_row(line) ==
    IF done THEN PyClip(PyInt(0), line, PyInt(rows - 1)) ELSE PyMax(PyInt(0), line)

\* C7: move_to(row) on a done table sets row_offset to row clamped into
\* [0, row_count - 1], and on a table that is not done to max(0, row). The keys
\* named call move_to(0), move_by(1), move_by(-1), move_by(num_rows) and
\* move_by(-num_rows), and move_by(n) is move_to(idx0 + n).
C7_MoveToClampsRow ==
    [][/\ KeyFirstRow => idx0'.v = clamped_row(PyInt(0)).v
       /\ KeyLineDown => idx0'.v = clamped_row(PyAdd(idx0, PyInt(1))).v
       /\ KeyLineUp => idx0'.v = clamped_row(PySub(idx0, PyInt(1))).v
       /\ KeyPageDown => idx0'.v = clamped_row(PyAdd(idx0, PyInt(num_rows))).v
       /\ KeyPageUp => idx0'.v = clamped_row(PySub(idx0, PyInt(num_rows))).v]_vars

\* C8: after move_to_column(col) for any integer col, and any frozen_count and
\* column_count the view can be constructed with, leftmost_scrollable_column
\* (col0) lies in [frozen_count, column_count - 1]. 'P' calls move_to_col(0);
\* the left and right arrows, with the cursor off, call move_to_col(col0 - 1)
\* and move_to_col(col0 + 1).
C8_LeftmostColumnInRange ==
    [][KeyFirstCell \/ (~show_cursor /\ (KeyLeft \/ KeyRight))
         => num_frozen <= col0' /\ col0' <= num_cols - 1]_vars

\* C9, as claimed: once the incremental model is done, ensure_rows(k) for any
\* k leaves the model state alone and returns the final row count.
C9_DoneReturnsFinalCount ==
    [][\A k \in Requests :
         (done /\ EnsureRows(k)) =>
             /\ UNCHANGED <<rows, more, done>>
             /\ ret' = PyInt(rows)]_vars

\* C9, amended: once the incremental model is done, ensure_rows(k) for any k
\* leaves the model state alone and returns min(k, final row count), which is
\* the final row count when k is at least the row count.
C9_DoneReturnsMinOfIndexAndCount ==
    [][\A k \in Requests :
         (done /\ EnsureRows(k)) =>
             /\ UNCHANGED <<rows, more, done>>
             /\ ret' = PyInt(IF k < rows THEN k ELSE rows)]_vars

\* A call on a done model for a row index below the row count, which it
\* returned.
C9_Witness == pc = "skip" /\ done /\ ret.v >= 0 /\ ret.v < 2 * rows

\* C10: no sequence of navigation commands followed by a render makes the view
\* read a row index outside [0, row_count) or a column index outside the row:
\* IndexOutOfRange never occurs in the render loop.
C10_RenderReadsInRange == exc # "IndexError" /\ ~wrapped

\* The number of decimal digits of n >= 0.
RECURSIVE digit_count(_)
digit_count(n) == IF n < 10 THEN 1 ELSE 1 + digit_count(n \div 10)

\* The digit a character denotes, None for any other character.
digit_of(ch) ==
    IF \E d \in 1 .. Len(DIGITS) : DIGITS[d] = ch
    THEN (CHOOSE d \in 1 .. Len(DIGITS) : DIGITS[d] = ch) - 1
    ELSE None

\* The number a string of digits denotes.
RECURSIVE decimal(_)
decimal(s) ==
    IF s = <<>> THEN 0
    ELSE decimal(SubSeq(s, 1, Len(s) - 1)) * Len(DIGITS) + digit_of(s[Len(s)])

\* s is the decimal numeral of n, or with zeros allowed, one padded by zeros.
is_numeral(s, n, zeros) ==
    /\ Len(s) >= 1
    /\ \A i \in 1 .. Len(s) : digit_of(s[i]) # None
    /\ decimal(s) = n
    /\ zeros \/ Len(s) = digit_count(n)

\* The value does not fit an IntFormatter, as C19 has it.
int_overflows(f, v) == digit_count(Abs(v)) > f.size \/ (v < 0 /\ f.sign = "None")

\* C19: IntFormatter.format returns exactly width '#' characters if and only
\* if the magnitude needs more decimal digits than size or the value is
\* negative with sign = none; otherwise the output with its padding removed
\* is the exact signed decimal of the value, and with zero padding the sign
\* glyph is the leftmost character.
C19_IntOverflowOrExactDecimal ==
    (pc \in {"returned", "raised"} /\ formatters[0].cls = "Int") =>
        LET f == formatters[0]
            v == fmt_value
            minus == IF v < 0 THEN <<"-">> ELSE <<>>
            plus == IF v >= 0 /\ f.sign = "+" THEN <<"+">> ELSE <<>>
            blank == IF v >= 0 /\ f.sign = "-" THEN <<" ">> ELSE <<>>
            glyph == minus \o plus \o blank
            bare == lstrip(fmt_result)
        IN /\ exc = ""
           /\ (fmt_result = Repeat("#", f.width)) <=> int_overflows(f, v)
           /\ ~int_overflows(f, v) =>
                 /\ Len(fmt_result) = f.width
                 /\ f.pad = " " =>
                       /\ SubSeq(bare, 1, Len(minus \o plus)) = minus \o plus
                       /\ is_numeral(SubSeq(bare, Len(minus \o plus) + 1, Len(bare)),
                                     Abs(v), FALSE)
                 /\ f.pad = "0" =>
                       /\ SubSeq(fmt_result, 1, Len(glyph)) = glyph
                       /\ is_numeral(SubSeq(fmt_result, Len(glyph) + 1, Len(fmt_result)),
                                     Abs(v), TRUE)

\* A negative value formatted with zero padding and room to spare: the sign
\* is followed by padding zeros.
C19_Witness ==
    /\ pc = "returned" /\ formatters[0].cls = "Int"
    /\ formatters[0].pad = "0" /\ formatters[0].sign = "-"
    /\ fmt_value < 0 /\ digit_count(Abs(fmt_value)) < formatters[0].size
    /\ fmt_result[1] = "-" /\ fmt_result[2] = "0"

\* How C20 has the scientific formatter render 0.0: a zero mantissa and an
\* exponent of +0...0.
scientific_zero(f) ==
    (IF f.sign = "None" THEN <<>> ELSE IF f.sign = "+" THEN <<"+">> ELSE <<" ">>)
        \o <<"0">>
        \o (IF f.precision = None THEN <<>> ELSE f.point \o Repeat("0", f.precision))
        \o f.exp \o <<"+">> \o Repeat("0", f.size)

\* C20: format is total on each formatter's declared input domain: Float and
\* Scientific formatters return a string, never raise, for every finite
\* number including 0.0 and for NaN and +/-Infinity, and the scientific
\* formatter renders 0.0 as a zero mantissa with exponent +0...0.
C20_FloatFormatIsTotal ==
    (pc \in {"returned", "raised"} /\ formatters[0].cls \in {"Float", "Scientific"}) =>
        /\ exc = ""
        /\ (formatters[0].cls = "Scientific" /\ fmt_value.kind = "fin" /\ fmt_value.q = 0)
              => fmt_result = scientific_zero(formatters[0])

\* A cursor-mode move(dr, dc) that returned: the arrow, Home and End keys with
\* the cursor shown.
CursorMove ==
    /\ show_cursor
    /\ KeyHome \/ KeyDown \/ KeyUp \/ KeyLeft \/ KeyRight \/ KeyEnd
    /\ pc' = "show"

\* C12: after a cursor-mode move(dr, dc), the cursor cell is clamped to the
\* table bounds and is visible: row_offset <= cursor.row < visible-range end
\* (idx1), and cursor.col is either a frozen column or within
\* [leftmost_scrollable_column, last visible column].
C12_CursorVisibleAfterMove ==
    [][CursorMove =>
         /\ 0 <= cursor'[1].v /\ cursor'[1].v <= 2 * (rows' - 1)
         /\ 0 <= cursor'[2] /\ cursor'[2] <= num_cols - 1
         /\ idx0'.v <= cursor'[1].v /\ cursor'[1].v < idx1'.v
         /\ \/ cursor'[2] < num_frozen
            \/ col0' <= cursor'[2] /\ cursor'[2] <= get_last_col(col0')]_vars

\* The text a cell of column j shows: every row of the table holds true in a
\* Bool column and a string as wide as the column in a Str column.
cell_text(j) ==
    IF formatters[j].cls = "Bool" THEN format(formatters[j], TRUE).out
    ELSE format(formatters[j], Repeat("a", formatters[j].size)).out

\* re.search of a one-character pattern in a text.
search(pattern, string) == \E k \in 1 .. Len(string) : string[k] = pattern

\* A key that searches with a pattern set: '/' or '?' with a pattern typed,
\* 'n', 'N', 'c' or 'C' after one.
SearchKey(dir, includeCurrentLine, scanToColumn) ==
    /\ searchTerm' # "None"
    /\ Search(searchTerm', dir, includeCurrentLine, scanToColumn)

\* C13: a search (new or repeated, forward or backward, from any row_offset,
\* with or without scan_to_column) that finds no matching row never raises: it
\* ends with the 'Pattern not found' status set and with row_offset and the
\* leftmost column unchanged.
C13_FailedSearchSetsStatus ==
    [][\A dir \in {1, 0 - 1}, inc \in BOOLEAN, scan \in BOOLEAN :
         (/\ SearchKey(dir, inc, scan)
          /\ \A j \in 0 .. num_cols - 1 : ~search(searchTerm', cell_text(j)))
         => /\ exc' = ""
            /\ flash' = "Pattern not found"
            /\ idx0' = idx0 /\ col0' = col0]_vars

\* C14: with a search pattern set, a search in direction +1 or -1 moves
\* row_offset to the nearest row in that direction (starting at the current
\* row when include_current, else the adjacent row) that has a cell whose
\* formatted text matches the pattern, and with scan_to_column leaves the
\* leftmost column on a matching column. Every row of the table has the same
\* cells, so the nearest matching row is the row the search starts at.
C14_SearchMovesToNearestMatch ==
    [][\A dir \in {1, 0 - 1}, inc \in BOOLEAN, scan \in BOOLEAN :
         LET start == PyAdd(idx0, PyInt(IF inc \/ scan THEN 0 ELSE dir))
         IN (/\ SearchKey(dir, inc, scan)
             /\ \E j \in 0 .. num_cols - 1 : search(searchTerm', cell_text(j))
             /\ ~idx0.f /\ 0 <= start.v /\ start.v < 2 * rows
             /\ num_rows >= 1)
            => /\ exc' = ""
               /\ ~scan => idx0' = start
               /\ scan => search(searchTerm', cell_text(col0'))]_vars

\* C17: guess_type over a non-empty column sample returns the first kind in
\* the order Bool, Int, Float, String whose conversion succeeds for every
\* sampled value; String is returned whenever any earlier kind fails on at
\* least one value, and guess_type never fails.
C17_GuessTypeFirstThatConverts ==
    (pc \in {"type guessed", "raised"} /\ Len(values) >= 1) =>
        /\ exc = ""
        /\ \E k \in 1 .. Len(TYPES) :
              /\ types = <<TYPES[k]>>
              /\ \A v \in 1 .. Len(values) : converts(TYPES[k], values[v])
              /\ \A h \in 1 .. k - 1 :
                    \E v \in 1 .. Len(values) : ~converts(TYPES[h], values[v])

\* A column of an int and a float: Bool and Int fail, Float is guessed.
C17_Witness ==
    /\ pc = "type guessed" /\ types = <<"float">>
    /\ \E v \in 1 .. Len(values) : as_int(values[v])
    /\ \E v \in 1 .. Len(values) : ~as_int(values[v])

\* The position of a delimiter in the candidate list.
priority(d) == CHOOSE k \in 1 .. Len(DELIMS) : DELIMS[k] = d

\* All rows of the sample have the same column count under the delimiter.
consistent(sample, d) ==
    \A k \in 1 .. Len(sample) : Len(csv_row(sample[k], d)) = Len(csv_row(sample[1], d))

\* C18: guess_delimiter returns a candidate delimiter under which all sampled
\* rows have the same column count, and when several candidates are
\* consistent with equal column counts it returns the one that is later in
\* the candidate priority list.
C18_GuessDelimiterPrefersLater ==
    pc = "delimiter guessed" =>
        /\ consistent(source, delimiter)
        /\ \A k \in 1 .. Len(DELIMS) :
              (/\ consistent(source, DELIMS[k])
               /\ Len(csv_row(source[1], DELIMS[k])) = Len(csv_row(source[1], delimiter)))
              => k <= priority(delimiter)

\* C11: every row returned by get_row, whether it came from the initial
\* sample or was streamed in by ensure_rows, has exactly column_count values.
C11_RowsHaveColumnCount ==
    pc = "row" => Len(row) = num_cols

\* The lines of the source that are comments before the first other line.
RECURSIVE leading_comments(_, _)
leading_comments(src, prefix) ==
    IF src # <<>> /\ is_comment(prefix, clean_line(Head(src)))
    THEN <<clean_line(Head(src))>> \o leading_comments(Tail(src), prefix)
    ELSE <<>>

\* The source has a line that is neither blank nor a comment.
has_data(src, prefix) ==
    \E k \in 1 .. Len(src) :
        clean_line(src[k]) # <<>> /\ ~is_comment(prefix, clean_line(src[k]))

\* C15: with a comment prefix configured and comment lines leading the
\* source, construction succeeds, the leading comments are the title lines, in
\* order, and none of them is among the data rows or the header.
C15_LeadingCommentsBecomeTitle ==
    [][(/\ pc = "construct"
        /\ comment_prefix # <<>>
        /\ leading_comments(source, comment_prefix) # <<>>
        /\ has_data(source, comment_prefix))
       => /\ exc' = ""
          /\ title_lines' = leading_comments(source, comment_prefix)
          /\ \A r \in 1 .. Len(table') :
                \A c \in 1 .. Len(table'[r]) : ~is_comment(comment_prefix, table'[r][c])
          /\ \A c \in 1 .. Len(names') : ~is_comment(comment_prefix, names'[c])]_vars

\* C16: constructing the model from a source with no data line, empty or of
\* blank lines only, fails with EOFError and with no other error.
C16_NoDataRaisesEOFError ==
    [][(/\ pc = "construct"
        /\ \A k \in 1 .. Len(source) : clean_line(source[k]) = <<>>)
       => exc' = "EOFError"]_vars

\* C21: a scientific formatter with sign None renders every negative input,
\* finite or -Infinity, as exactly width '#' characters, as the Float formatter
\* does: the magnitude of a negative value is never printed without a sign.
C21_ScientificNegativeWithoutSignOverflows ==
    (/\ pc \in {"returned", "raised"}
     /\ formatters[0].cls = "Scientific"
     /\ formatters[0].sign = "None"
     /\ IsNegative(fmt_value))
    => /\ exc = ""
       /\ fmt_result = Repeat("#", width(formatters[0]))

\* The arguments name a pad that is not one character, or, for a Float or a
\* Scientific formatter, a NaN or Inf literal longer than the numeric field.
malformed(a) ==
    \/ Len(a.pad) # 1
    \/ /\ a.cls = "Float"
       /\ \/ Len(a.nan_str) > Float_digits_width(a.size, a.precision, a.point)
          \/ Len(a.inf_str) > Float_digits_width(a.size, a.precision, a.point)
    \/ /\ a.cls = "Scientific" /\ a.precision # None
       /\ \/ Len(a.nan_str) > Scientific_digits_width(a.size, a.precision, a.point, a.exp)
          \/ Len(a.inf_str) > Scientific_digits_width(a.size, a.precision, a.point, a.exp)

\* C22: a malformed formatter configuration is rejected at construction: the
\* constructor of an Int, Float, Scientific or Str formatter fails for a pad
\* that is not exactly one character, and that of a Float or Scientific
\* formatter for a NaN or Inf literal longer than its numeric field, so no
\* constructed formatter fails or cuts the literal later in format.
C22_MalformedConfigurationRejected ==
    (pc # "new" /\ malformed(fmt_args)) => pc = "rejected"

\* A step of one of the four keys that edit a formatter.
EditKey ==
    /\ pc = "key"
    /\ KeyShrink \/ KeyGrow \/ KeyLessPrecision \/ KeyMorePrecision

\* C23: change_field_size and change_precision are no-ops when cursor mode is
\* off or when the formatter at the cursor's column lacks the property; when
\* they apply they replace the formatter of the cursor's column only and leave
\* every other column's formatter, row_offset, the leftmost column and the
\* cursor unchanged.
C23_EditChangesCursorColumnOnly ==
    [][EditKey =>
          /\ idx0' = idx0 /\ col0' = col0 /\ cursor' = cursor
          /\ \A c \in 0 .. num_cols - 1 : c # cursor[2] => formatters'[c] = formatters[c]
          /\ ~show_cursor => formatters' = formatters
          /\ (KeyLessPrecision \/ KeyMorePrecision) /\ ~has_precision(formatters[cursor[2]])
                => formatters' = formatters]_vars

\* The cursor is on the second column and an edit key has changed its
\* formatter.
C23_Witness ==
    /\ show_cursor /\ cursor[2] = 1 /\ num_cols > 1
    /\ formatters[1].size > 1
    /\ formatters[0].cls = "Float" /\ formatters[0].precision = 1

\* C28: live editing never fails: from the default formatter of any column,
\* every sequence of change_field_size and change_precision commands yields a
\* constructed formatter without raising.
C28_EditNeverRaises ==
    exc \notin {"AssertionError", "TypeError", "ValueError"}

\* C24 as stated: after the 'G' command on a model in any state the whole
\* source has been read and the model is done, the visible-range end equals
\* the final row count, and row_offset = max(0, row_count - viewport_height).
C24_LastRowReadsAllAndShowsTail ==
    [][KeyLastRow =>
          /\ done' /\ more' = 0
          /\ idx1' = PyInt(rows')
          /\ idx0' = PyInt(Max(0, rows' - num_rows))]_vars

\* C24 amended: after the 'G' command the whole source has been read and the
\* model is done, the visible-range end equals the final row count, and
\* row_offset = max(0, row_count - viewport_height) when the viewport has a
\* line or more; a viewport without lines leaves row_offset on the last row.
C24_LastRowReadsAllAndShowsTailOfViewport ==
    [][KeyLastRow =>
          /\ done' /\ more' = 0
          /\ idx1' = PyInt(rows')
          /\ idx0' = PyInt(IF num_rows >= 1 THEN Max(0, rows' - num_rows)
                           ELSE rows' - 1)]_vars

\* 'G' has read the rest of the source and the last rows fill the viewport.
C24_Witness ==
    /\ pc = "show" /\ done /\ more = 0 /\ rows = MaxSample + MaxMore
    /\ num_rows >= 1 /\ num_rows < rows
    /\ idx1 = PyInt(rows) /\ idx0 = PyInt(rows - num_rows)

\* C25: with cursor mode off, the End command from any row_offset jumps to the
\* last row read so far: afterwards row_offset = max(0, rows read -
\* viewport_height), so the last row read is the last visible row.
C25_EndShowsLastRowRead ==
    [][(KeyEnd /\ ~show_cursor) => idx0' = PyInt(Max(0, rows - num_rows))]_vars

\* C26: the half-window commands 'd' and 'u' leave row_offset a whole number,
\* an int, for odd and even viewport heights alike, so that it is a valid row
\* index for the render that follows.
C26_HalfWindowKeepsWholeOffset ==
    [][(KeyHalfDown \/ KeyHalfUp) => (~idx0'.f /\ idx0'.v % 2 = 0)]_vars

\* C27: every cursor-mode move(dr, dc) terminates: the loop that advances the
\* leftmost column until the cursor's column is visible ends, whatever the
\* column widths, the frozen columns and the screen width.
C27_CursorMoveTerminates == pc # "hung"

\* C29: no row of the model is derived from a comment line: a line matching
\* the comment prefix after the first data line, in the sample or streamed in
\* later, is in neither the rows nor the header.
C29_NoRowFromCommentLine ==
    LET read == (IF has_header THEN <<names>> ELSE <<>>) \o table
        from_comment(r) == read[r] # <<>> /\ is_comment(comment_prefix, read[r][1])
    IN pc \in {"ready", "row"} =>
          \A r \in 1 .. Len(read) :
              (\E q \in 1 .. r - 1 : read[q] # <<>> /\ ~from_comment(q))
                  => ~from_comment(r)

\* C30: every finite value in the sample of a float column renders under the
\* column's default formatter, for every precision range of the configuration,
\* without raising and without the overflow marker, a field of '#'.
C30_SampledValueFitsDefaultFormatter ==
    (pc \in {"returned", "raised"} /\ fmt_value.kind = "fin")
        => exc = "" /\ fmt_result # Repeat("#", width(formatters[0]))

====
